---- MODULE Spec2Model ----
(***************************************************************************)
(* Model of the session tool: DiceService (the dice expression parser, the *)
(* roll evaluator and the roll history), the DiceRoller, SessionService,   *)
(* CharacterService, and the InitiativeTracker, TorchIndicator and         *)
(* CharacterCard components.  Each part has a specification of its own;    *)
(* the other parts stay as they start.                                     *)
(*                                                                         *)
(* Text is modelled as a sequence of one-character strings, so that the    *)
(* regular expressions, parseInt, toLowerCase/toUpperCase and the template *)
(* literals of the source are computed character by character.             *)
(***************************************************************************)
EXTENDS Integers, Sequences, FiniteSets, TLC

VARIABLES
    call,             \* the service call that is made: its name and its arguments
    random,           \* the values secureRandom() hands out during that call
    ret,              \* pending, or what the call returned or threw
    rollHistory,      \* DiceService.rollHistory: sessionId -> rolls, for the sessions it has
    storage,          \* what localStorage holds under DiceService.STORAGE_KEY
    saved,            \* per session, how many rolls were saved since it was last cleared
    roller,           \* the DiceRoller component: its character and its useState values
    closure,          \* the request a handleRoll that waits for its delay will make
    completed,        \* the request the last step passed to rollDice, and how that ended
    now,              \* Date.now(), in milliseconds
    activeSessions,   \* SessionService.activeSessions: token -> GameSession
    sessionStore,     \* what localStorage holds under SessionService.STORAGE_KEY
    tracker,          \* the InitiativeTracker component: its useState values
    trackerStorage,   \* what localStorage holds under INITIATIVE_STORAGE_KEY
    torch,            \* the TorchIndicator component: its props, its useState values, what it last showed and passed on
    characters,       \* CharacterService.characters: id -> Character
    characterStorage, \* what localStorage holds under CharacterService.STORAGE_KEY
    card              \* the CharacterCard component: its character, its useState values, what it last showed and passed on

diceVars == <<call, random, ret>>

historyVars == <<rollHistory, storage, saved>>

rollerVars == <<roller, closure, completed>>

sessionVars == <<now, activeSessions, sessionStore>>

trackerVars == <<tracker, trackerStorage>>

torchVars == <<torch>>

characterVars == <<characters, characterStorage>>

cardVars == <<card>>

\* everything but the call that is made
besidesDice == <<historyVars, rollerVars, sessionVars, trackerVars,
    torchVars, characterVars, cardVars>>

\* everything but the call that is made and the state of the roll history
besidesHistory == <<rollerVars, sessionVars, trackerVars, torchVars,
    characterVars, cardVars>>

\* everything but the call that is made and the state of the DiceRoller
besidesRoller == <<historyVars, sessionVars, trackerVars, torchVars,
    characterVars, cardVars>>

\* everything but the call that is made and the state of SessionService
besidesSession == <<historyVars, rollerVars, trackerVars, torchVars,
    characterVars, cardVars>>

\* everything but the call that is made and the state of the InitiativeTracker
besidesTracker == <<historyVars, rollerVars, sessionVars, torchVars,
    characterVars, cardVars>>

\* everything but the call that is made and the state of the TorchIndicator and SessionService
besidesTorch == <<historyVars, rollerVars, trackerVars, characterVars,
    cardVars>>

\* everything but the call that is made and the state of CharacterService
besidesCharacters == <<historyVars, rollerVars, sessionVars, trackerVars,
    torchVars, cardVars>>

\* everything but the call that is made and the state of the CharacterCard
besidesCard == <<historyVars, rollerVars, sessionVars, trackerVars,
    torchVars, characterVars>>

vars == <<diceVars, historyVars, rollerVars, sessionVars, trackerVars,
    torchVars, characterVars, cardVars>>

----------------------------------------------------------------------------
(* Characters and strings                                                  *)

DigitChars == <<"0", "1", "2", "3", "4", "5", "6", "7", "8", "9">>

Digits == {DigitChars[i] : i \in 1..Len(DigitChars)}

IsDigit(c) == c \in Digits

\* the numeric value of one digit character
DigitValue(c) == (CHOOSE i \in 1..Len(DigitChars) : DigitChars[i] = c) - 1

UpperChars == <<"A", "C", "D", "E", "H", "I", "N", "O", "R", "S", "T", "W", "X">>

LowerChars == <<"a", "c", "d", "e", "h", "i", "n", "o", "r", "s", "t", "w", "x">>

\* String.prototype.toLowerCase, one character
LowerChar(c) ==
    IF \E i \in 1..Len(UpperChars) : UpperChars[i] = c
    THEN LowerChars[CHOOSE i \in 1..Len(UpperChars) : UpperChars[i] = c]
    ELSE c

\* String.prototype.toUpperCase, one character
UpperChar(c) ==
    IF \E i \in 1..Len(LowerChars) : LowerChars[i] = c
    THEN UpperChars[CHOOSE i \in 1..Len(LowerChars) : LowerChars[i] = c]
    ELSE c

toLowerCase(s) == [i \in 1..Len(s) |-> LowerChar(s[i])]

toUpperCase(s) == [i \in 1..Len(s) |-> UpperChar(s[i])]

\* the characters \s matches that occur in the modelled texts
Whitespace == {" ", "\t"}

IsNotWhitespace(c) == c \notin Whitespace

\* .replace(/\s+/g, '')
StripWhitespace(s) == SelectSeq(s, IsNotWhitespace)

\* s.substring(from - 1): the characters of s from position from (1-based) on
Substring(s, from) == SubSeq(s, from, Len(s))

RECURSIVE DigitRun(_, _)
\* the length of the longest run of digits of s that starts at position i:
\* what a greedy \d* consumes there
DigitRun(s, i) ==
    IF i <= Len(s) /\ IsDigit(s[i]) THEN 1 + DigitRun(s, i + 1) ELSE 0

RECURSIVE DecimalValue(_)
\* the value of a non-empty sequence of digits in base 10
DecimalValue(ds) ==
    IF Len(ds) = 0 THEN 0
    ELSE 10 * DecimalValue(SubSeq(ds, 1, Len(ds) - 1)) + DigitValue(ds[Len(ds)])

\* the absent capture group of a regular expression match (undefined)
Undefined == <<"undefined">>

\* a mutant of ParseIntOr: the default is forgotten, an absent count is 0
ParseIntOr_NoDefault(g, dflt) ==
    IF Len(g) = 0 THEN 0 ELSE DecimalValue(g)

\* parseInt(g) || dflt for a capture group \d*: parseInt("") is NaN and
\* parseInt("0") is 0, both falsy, so both give dflt
ParseIntOr(g, dflt) ==
    IF Len(g) = 0 \/ DecimalValue(g) = 0 THEN dflt ELSE DecimalValue(g)

\* parseInt(g) for a capture group [+-]\d+
ParseSigned(g) ==
    IF g[1] = "-" THEN 0 - DecimalValue(Substring(g, 2)) ELSE DecimalValue(Substring(g, 2))

\* g matches [+-]\d+ entirely
IsSignedNumber(g) ==
    /\ Len(g) >= 2
    /\ g[1] \in {"+", "-"}
    /\ \A i \in 2..Len(g) : IsDigit(g[i])

AttributeWords ==
    { <<"s", "t", "r">>, <<"d", "e", "x">>, <<"c", "o", "n">>,
      <<"i", "n", "t">>, <<"w", "i", "s">>, <<"c", "h", "a">> }

\* g starts with [+-](?:str|dex|con|int|wis|cha)
StartsWithAttribute(g) ==
    /\ Len(g) >= 4
    /\ g[1] \in {"+", "-"}
    /\ SubSeq(g, 2, 4) \in AttributeWords

NoMatch == [matched |-> FALSE]

\* the part ^(\d*)d(\d+) common to both expressions: the two groups and the
\* rest of the text, or NoMatch
DiceHead(s) ==
    LET n1 == DigitRun(s, 1)
        n2 == DigitRun(s, n1 + 2)
    IN  IF Len(s) >= n1 + 1 /\ s[n1 + 1] = "d" /\ n2 >= 1
        THEN [matched |-> TRUE,
              g1 |-> SubSeq(s, 1, n1),
              g2 |-> SubSeq(s, n1 + 2, n1 + 1 + n2),
              rest |-> Substring(s, n1 + 2 + n2)]
        ELSE NoMatch

\* cleaned.match(/^(\d*)d(\d+)([+-]\d+)?$/)
BasicMatch(s) ==
    LET h == DiceHead(s)
    IN  IF ~h.matched THEN NoMatch
        ELSE IF Len(h.rest) = 0
             THEN [matched |-> TRUE, g1 |-> h.g1, g2 |-> h.g2, g3 |-> Undefined]
        ELSE IF IsSignedNumber(h.rest)
             THEN [matched |-> TRUE, g1 |-> h.g1, g2 |-> h.g2, g3 |-> h.rest]
        ELSE NoMatch

\* a mutant of ComplexMatch: the numeric modifier is also accepted in front
\* of the attribute token
ComplexMatch_AnyOrder(s) ==
    LET h == DiceHead(s)
        n == IF h.matched /\ Len(h.rest) >= 2 /\ h.rest[1] \in {"+", "-"}
             THEN DigitRun(h.rest, 2) ELSE 0
        num == IF n >= 1 THEN SubSeq(h.rest, 1, n + 1) ELSE Undefined
        r1 == IF n >= 1 THEN Substring(h.rest, n + 2) ELSE h.rest
        hasAttr == StartsWithAttribute(r1)
        r2 == IF hasAttr THEN Substring(r1, 5) ELSE r1
    IN  IF ~h.matched THEN NoMatch
        ELSE IF Len(r2) = 0
             THEN [matched |-> TRUE, g1 |-> h.g1, g2 |-> h.g2,
                   g3 |-> IF hasAttr THEN SubSeq(r1, 1, 4) ELSE Undefined,
                   g4 |-> num]
        ELSE IF n = 0 /\ IsSignedNumber(r2)
             THEN [matched |-> TRUE, g1 |-> h.g1, g2 |-> h.g2,
                   g3 |-> IF hasAttr THEN SubSeq(r1, 1, 4) ELSE Undefined,
                   g4 |-> r2]
        ELSE NoMatch

\* cleaned.match(/^(\d*)d(\d+)([+-](?:str|dex|con|int|wis|cha))?([+-]\d+)?$/)
ComplexMatch(s) ==
    LET h == DiceHead(s)
        hasAttr == h.matched /\ StartsWithAttribute(h.rest)
        g3 == IF hasAttr THEN SubSeq(h.rest, 1, 4) ELSE Undefined
        rest == IF hasAttr THEN Substring(h.rest, 5) ELSE h.rest
    IN  IF ~h.matched THEN NoMatch
        ELSE IF Len(rest) = 0
             THEN [matched |-> TRUE, g1 |-> h.g1, g2 |-> h.g2, g3 |-> g3, g4 |-> Undefined]
        ELSE IF IsSignedNumber(rest)
             THEN [matched |-> TRUE, g1 |-> h.g1, g2 |-> h.g2, g3 |-> g3, g4 |-> rest]
        ELSE NoMatch

----------------------------------------------------------------------------
(* DiceService.parseDiceExpression                                         *)

STR == <<"S", "T", "R">>
DEX == <<"D", "E", "X">>
CON == <<"C", "O", "N">>
INT == <<"I", "N", "T">>
WIS == <<"W", "I", "S">>
CHA == <<"C", "H", "A">>

AttributeNames == <<STR, DEX, CON, INT, WIS, CHA>>

\* the value null
Null == [isNull |-> TRUE]

\* an attributeBonus that is undefined
NoAttribute == Undefined

\* a mutant of InBounds: the upper bounds are not checked
InBounds_NoUpper(count, sides) ==
    count > 0 /\ sides > 0

\* a mutant of InBounds: sides > 0 is written sides >= 0
InBounds_ZeroSides(count, sides) ==
    count > 0 /\ sides >= 0

\* count > 0 && count <= 100 && sides > 0 && sides <= 1000
InBounds(count, sides) ==
    count > 0 /\ count <= 100 /\ sides > 0 /\ sides <= 1000

\* a mutant of AttributeOf: a token written with '-' names no attribute
AttributeOf_MinusDropped(attributeMatch) ==
    IF attributeMatch = Undefined \/ attributeMatch[1] = "-" THEN NoAttribute
    ELSE toUpperCase(Substring(attributeMatch, 2))

\* attributeMatch.substring(1).toUpperCase(), kept when it is one of the six
\* attribute names
AttributeOf(attributeMatch) ==
    IF attributeMatch = Undefined THEN NoAttribute
    ELSE LET attr == toUpperCase(Substring(attributeMatch, 2))
         IN  IF \E i \in 1..Len(AttributeNames) : AttributeNames[i] = attr
             THEN attr ELSE NoAttribute

\* the expression object { count, sides, modifier, attributeBonus }
Expression(count, sides, modifier, attributeBonus) ==
    [isNull |-> FALSE, count |-> count, sides |-> sides,
     modifier |-> modifier, attributeBonus |-> attributeBonus]

parseDiceExpression(expression) ==
    LET cleaned == StripWhitespace(toLowerCase(expression))
        basicMatch == BasicMatch(cleaned)
        complexMatch == ComplexMatch(cleaned)
        bCount == ParseIntOr(basicMatch.g1, 1)
        bSides == DecimalValue(basicMatch.g2)
        bModifier == IF basicMatch.g3 # Undefined THEN ParseSigned(basicMatch.g3) ELSE 0
        cCount == ParseIntOr(complexMatch.g1, 1)
        cSides == DecimalValue(complexMatch.g2)
        numericModifier ==
            IF complexMatch.g4 # Undefined THEN ParseSigned(complexMatch.g4) ELSE 0
    IN  IF basicMatch.matched /\ InBounds(bCount, bSides)
        THEN Expression(bCount, bSides, bModifier, NoAttribute)
        ELSE IF complexMatch.matched /\ InBounds(cCount, cSides)
        THEN Expression(cCount, cSides, numericModifier, AttributeOf(complexMatch.g3))
        ELSE Null

\* parseDiceExpression(expression) !== null
isValidExpression(expression) == parseDiceExpression(expression) # Null

----------------------------------------------------------------------------
(* Characters (types.ts) and CharacterService.calculateModifier            *)

\* a request without a character
NoCharacter == [defined |-> FALSE]

\* the part of a Character the evaluator reads
Character(attributes, luck) ==
    [defined |-> TRUE, basicAttributes |-> attributes, resources |-> [luck |-> luck]]

\* a mutant of calculateModifier: the half is rounded towards zero
calculateModifier_Truncated(attributeValue) ==
    IF attributeValue >= 10 THEN (attributeValue - 10) \div 2
    ELSE 0 - ((10 - attributeValue) \div 2)

\* Math.floor((attributeValue - 10) / 2)
calculateModifier(attributeValue) == (attributeValue - 10) \div 2

----------------------------------------------------------------------------
(* Random numbers and single dice                                          *)

\* secureRandom() returns array[0] / (0xffffffff + 1), a fraction k / 2^32
\* with 0 <= k < 2^32. The model keeps the fraction with a smaller
\* denominator: secureRandom() returns k / RandScale with 0 <= k < RandScale,
\* and a value of random names the numerator k.
RandScale == 20

\* the numerator the i-th call of secureRandom() returns: the values of rnd in
\* turn, starting over when they are used up
secureRandom(rnd, i) == rnd[((i - 1) % Len(rnd)) + 1]

\* a mutant of rollDie: the result is in 0..sides-1
rollDie_ZeroBased(sides, r) == (r * sides) \div RandScale

\* Math.floor(this.secureRandom() * sides) + 1
rollDie(sides, r) == ((r * sides) \div RandScale) + 1

Max(a, b) == IF a >= b THEN a ELSE b

Min(a, b) == IF a <= b THEN a ELSE b

RECURSIVE NatToString(_)
\* the decimal digits of a natural number
NatToString(n) ==
    IF n < 10 THEN <<DigitChars[n + 1]>>
    ELSE NatToString(n \div 10) \o <<DigitChars[(n % 10) + 1]>>

\* `${n}` for an integer n
IntToString(n) == IF n < 0 THEN <<"-">> \o NatToString(0 - n) ELSE NatToString(n)

\* `(${roll1}, ${roll2})`
PairDetails(roll1, roll2) ==
    <<"(">> \o IntToString(roll1) \o <<",", " ">> \o IntToString(roll2) \o <<")">>

\* a mutant of rollWithAdvantage: the first roll is kept, not the higher one
rollWithAdvantage_First(sides, rnd) ==
    LET roll1 == rollDie(sides, secureRandom(rnd, 1))
        roll2 == rollDie(sides, secureRandom(rnd, 2))
    IN  [result |-> roll1, details |-> PairDetails(roll1, roll2),
         drawn |-> <<roll1, roll2>>]

rollWithAdvantage(sides, rnd) ==
    LET roll1 == rollDie(sides, secureRandom(rnd, 1))
        roll2 == rollDie(sides, secureRandom(rnd, 2))
    IN  [result |-> Max(roll1, roll2), details |-> PairDetails(roll1, roll2),
         drawn |-> <<roll1, roll2>>]

rollWithDisadvantage(sides, rnd) ==
    LET roll1 == rollDie(sides, secureRandom(rnd, 1))
        roll2 == rollDie(sides, secureRandom(rnd, 2))
    IN  [result |-> Min(roll1, roll2), details |-> PairDetails(roll1, roll2),
         drawn |-> <<roll1, roll2>>]

----------------------------------------------------------------------------
(* DiceService.rollDice                                                    *)

\* one entry of DiceResult.rolls
RollEntry(sides, result) ==
    [die |-> sides, result |-> result, isMax |-> result = sides, isMin |-> result = 1]

\* what rollDice has accumulated before any die: rolls, modifiers, total, and
\* the values rollDie has returned so far
EmptyRoll == [rolls |-> <<>>, modifiers |-> <<>>, total |-> 0, drawn |-> <<>>]

\* a mutant of HasAdvantage: the count is not looked at
HasAdvantage_AnyCount(request, parsed) ==
    request.advantage /\ parsed.sides = 20

\* request.advantage && parsed.sides === 20 && parsed.count === 1
HasAdvantage(request, parsed) ==
    request.advantage /\ parsed.sides = 20 /\ parsed.count = 1

\* request.disadvantage && parsed.sides === 20 && parsed.count === 1
HasDisadvantage(request, parsed) ==
    request.disadvantage /\ parsed.sides = 20 /\ parsed.count = 1

\* the branch of rollDice for advantage and disadvantage: one entry
AdvantageRoll(acc, request, parsed, rnd) ==
    LET rollResult == IF HasAdvantage(request, parsed)
                      THEN rollWithAdvantage(parsed.sides, rnd)
                      ELSE rollWithDisadvantage(parsed.sides, rnd)
    IN  [acc EXCEPT !.rolls = Append(@, RollEntry(parsed.sides, rollResult.result)),
                    !.total = @ + rollResult.result,
                    !.drawn = @ \o rollResult.drawn]

RECURSIVE SumOf(_, _, _)
\* results[lo] + ... + results[hi]; the sum is taken by halves to keep the
\* evaluation shallow
SumOf(results, lo, hi) ==
    IF lo > hi THEN 0
    ELSE IF lo = hi THEN results[lo]
    ELSE LET mid == (lo + hi) \div 2
         IN  SumOf(results, lo, mid) + SumOf(results, mid + 1, hi)

\* the loop for (let i = 0; i < parsed.count; i++): one rollDie and one entry
\* for each i, in order, and total += result each time
NormalRolls(acc, parsed, rnd) ==
    LET results == [i \in 1..parsed.count |->
                        rollDie(parsed.sides, secureRandom(rnd, i))]
    IN  [acc EXCEPT !.rolls = @ \o [i \in 1..parsed.count |->
                                        RollEntry(parsed.sides, results[i])],
                    !.total = @ + SumOf(results, 1, parsed.count),
                    !.drawn = @ \o results]

\* the dice of rollDice: the advantage/disadvantage branch or the normal rolls
RollTheDice(acc, request, parsed, rnd) ==
    IF HasAdvantage(request, parsed) \/ HasDisadvantage(request, parsed)
    THEN AdvantageRoll(acc, request, parsed, rnd)
    ELSE NormalRolls(acc, parsed, rnd)

ModifierName == <<"M", "o", "d", "i", "f", "i", "e", "r">>

LuckBonusName == <<"L", "u", "c", "k", " ", "B", "o", "n", "u", "s">>

\* `${attr} Bonus`
BonusName(attr) == attr \o <<" ", "B", "o", "n", "u", "s">>

\* a mutant of AddNumericModifier: the entry is pushed for a modifier of 0 too
AddNumericModifier_Always(acc, parsed) ==
    [acc EXCEPT !.modifiers = Append(@, [name |-> ModifierName, value |-> parsed.modifier]),
                !.total = @ + parsed.modifier]

\* if (parsed.modifier !== 0) { modifiers.push(...); total += parsed.modifier }
AddNumericModifier(acc, parsed) ==
    IF parsed.modifier # 0
    THEN [acc EXCEPT !.modifiers = Append(@, [name |-> ModifierName, value |-> parsed.modifier]),
                     !.total = @ + parsed.modifier]
    ELSE acc

\* if (parsed.attributeBonus && request.character) { ... }
AddAttributeBonus(acc, request, parsed) ==
    IF parsed.attributeBonus # NoAttribute /\ request.character.defined
    THEN LET attributeValue == request.character.basicAttributes[parsed.attributeBonus]
             bonus == calculateModifier(attributeValue)
         IN  [acc EXCEPT !.modifiers = Append(@, [name |-> BonusName(parsed.attributeBonus),
                                                  value |-> bonus]),
                         !.total = @ + bonus]
    ELSE acc

\* a mutant of ApplyLuckBonus: the entry is pushed, the total is not raised
ApplyLuckBonus_NotAdded(acc, request) ==
    IF request.character.defined /\ request.character.resources.luck
    THEN [acc EXCEPT !.modifiers = Append(@, [name |-> LuckBonusName, value |-> 1])]
    ELSE acc

\* a mutant of ApplyLuckBonus: the luck bonus is 2
ApplyLuckBonus_Double(acc, request) ==
    IF request.character.defined /\ request.character.resources.luck
    THEN [acc EXCEPT !.modifiers = Append(@, [name |-> LuckBonusName, value |-> 2]),
                     !.total = @ + 2]
    ELSE acc

\* if (request.character?.resources.luck) { ... }
ApplyLuckBonus(acc, request) ==
    IF request.character.defined /\ request.character.resources.luck
    THEN LET luckBonus == 1
         IN  [acc EXCEPT !.modifiers = Append(@, [name |-> LuckBonusName, value |-> luckBonus]),
                         !.total = @ + luckBonus]
    ELSE acc

RECURSIVE Join(_, _, _)
\* rolls.map(r => r.result).join(', ') for the entries lo .. hi; the text is
\* put together by halves to keep the evaluation shallow
Join(rolls, lo, hi) ==
    IF lo > hi THEN <<>>
    ELSE IF lo = hi THEN IntToString(rolls[lo].result)
    ELSE LET mid == (lo + hi) \div 2
         IN  Join(rolls, lo, mid) \o <<",", " ">> \o Join(rolls, mid + 1, hi)

RECURSIVE ModifierDetails(_, _)
\* modifiers.forEach(mod => details += ` ${sign}${mod.value} (${mod.name})`)
ModifierDetails(modifiers, i) ==
    IF i > Len(modifiers) THEN <<>>
    ELSE <<" ">> \o (IF modifiers[i].value >= 0 THEN <<"+">> ELSE <<>>)
         \o IntToString(modifiers[i].value)
         \o <<" ", "(">> \o modifiers[i].name \o <<")">>
         \o ModifierDetails(modifiers, i + 1)

AdvantageTag == <<"(", "A", "d", "v", "a", "n", "t", "a", "g", "e", ")", " ">>

DisadvantageTag == <<"(", "D", "i", "s", "a", "d", "v", "a", "n", "t", "a", "g", "e", ")", " ">>

\* the character U+2192 of the template literals, with the spaces around it
Arrow == <<" ", "->", " ">>

\* a mutant of BuildDetails: a single result is written as a list too
BuildDetails_AlwaysList(acc, request, parsed) ==
    (IF HasAdvantage(request, parsed) THEN AdvantageTag
     ELSE IF HasDisadvantage(request, parsed) THEN DisadvantageTag
     ELSE <<>>)
    \o IntToString(parsed.count) \o <<"d">> \o IntToString(parsed.sides)
    \o Arrow \o <<"[">> \o Join(acc.rolls, 1, Len(acc.rolls)) \o <<"]">>
    \o ModifierDetails(acc.modifiers, 1)

\* the details string of rollDice
BuildDetails(acc, request, parsed) ==
    (IF HasAdvantage(request, parsed) THEN AdvantageTag
     ELSE IF HasDisadvantage(request, parsed) THEN DisadvantageTag
     ELSE <<>>)
    \o IntToString(parsed.count) \o <<"d">> \o IntToString(parsed.sides)
    \o (IF Len(acc.rolls) = 1
        THEN Arrow \o IntToString(acc.rolls[1].result)
        ELSE Arrow \o <<"[">> \o Join(acc.rolls, 1, Len(acc.rolls)) \o <<"]">>)
    \o ModifierDetails(acc.modifiers, 1)

InvalidExpression ==
    <<"I", "n", "v", "a", "l", "i", "d", " ", "d", "i", "c", "e", " ",
      "e", "x", "p", "r", "e", "s", "s", "i", "o", "n">>

\* a thrown Error(message); drawn: what rollDie had returned before the throw
Throw(message, drawn) == [status |-> "threw", value |-> message, drawn |-> drawn]

\* a returned value; drawn: what rollDie returned during the call
Return(value, drawn) == [status |-> "returned", value |-> value, drawn |-> drawn]

\* the call has not returned yet
Pending == [status |-> "pending"]

\* the modifiers of rollDice, in the order of the code: numeric modifier,
\* attribute bonus, luck bonus
AddModifiers(acc, request, parsed) ==
    ApplyLuckBonus(AddAttributeBonus(AddNumericModifier(acc, parsed), request, parsed),
                   request)

\* return { expression, rolls, modifiers, total, details, timestamp }; the
\* timestamp (Date.now()) is left out
Result(acc, request, parsed) ==
    Return([expression |-> request.expression, rolls |-> acc.rolls,
            modifiers |-> acc.modifiers, total |-> acc.total,
            details |-> BuildDetails(acc, request, parsed)], acc.drawn)

\* a mutant of RollParsed: a die is rolled before the parse result is looked at
RollParsed_CheckedLate(request, parsed, rnd) ==
    IF parsed = Null
    THEN Throw(InvalidExpression, <<rollDie(20, secureRandom(rnd, 1))>>)
    ELSE Result(AddModifiers(RollTheDice(EmptyRoll, request, parsed, rnd), request, parsed),
                request, parsed)

\* rollDice after const parsed = this.parseDiceExpression(request.expression)
RollParsed(request, parsed, rnd) ==
    IF parsed = Null
    THEN Throw(InvalidExpression, <<>>)
    ELSE Result(AddModifiers(RollTheDice(EmptyRoll, request, parsed, rnd), request, parsed),
                request, parsed)

\* DiceService.rollDice(request), with secureRandom() reading rnd
rollDice(request, rnd) ==
    RollParsed(request, parseDiceExpression(request.expression), rnd)

----------------------------------------------------------------------------
(* DiceService.getCommonRolls                                              *)

\* the part of a Character getCommonRolls reads
CharacterWithBonuses(melee, ranged, spell) ==
    [defined |-> TRUE,
     resources |-> [meleeAtkBonus |-> melee, rangedAtkBonus |-> ranged,
                    spellcastingBonus |-> spell]]

baseRolls ==
    << [label |-> <<"d", "2", "0">>,
        expression |-> <<"1", "d", "2", "0">>,
        description |-> <<"B", "a", "s", "i", "c", " ", "d", "2", "0", " ", "r", "o", "l", "l">>],
       [label |-> <<"d", "4">>,
        expression |-> <<"1", "d", "4">>,
        description |-> <<"F", "o", "u", "r", "-", "s", "i", "d", "e", "d", " ", "d", "i", "e">>],
       [label |-> <<"d", "6">>,
        expression |-> <<"1", "d", "6">>,
        description |-> <<"S", "i", "x", "-", "s", "i", "d", "e", "d", " ", "d", "i", "e">>],
       [label |-> <<"d", "8">>,
        expression |-> <<"1", "d", "8">>,
        description |-> <<"E", "i", "g", "h", "t", "-", "s", "i", "d", "e", "d", " ", "d", "i", "e">>],
       [label |-> <<"d", "1", "0">>,
        expression |-> <<"1", "d", "1", "0">>,
        description |-> <<"T", "e", "n", "-", "s", "i", "d", "e", "d", " ", "d", "i", "e">>],
       [label |-> <<"d", "1", "2">>,
        expression |-> <<"1", "d", "1", "2">>,
        description |-> <<"T", "w", "e", "l", "v", "e", "-", "s", "i", "d", "e", "d", " ", "d", "i", "e">>],
       [label |-> <<"d", "1", "0", "0">>,
        expression |-> <<"1", "d", "1", "0", "0">>,
        description |-> <<"P", "e", "r", "c", "e", "n", "t", "i", "l", "e", " ", "d", "i", "e">>],
       [label |-> <<"4", "d", "6">>,
        expression |-> <<"4", "d", "6">>,
        description |-> <<"A", "b", "i", "l", "i", "t", "y", " ", "s", "c", "o", "r", "e", " ", "g", "e", "n", "e", "r", "a", "t", "i", "o", "n">>],
       [label |-> <<"2", "d", "6">>,
        expression |-> <<"2", "d", "6">>,
        description |-> <<"C", "o", "m", "m", "o", "n", " ", "d", "a", "m", "a", "g", "e", " ", "r", "o", "l", "l">>] >>

\* a mutant of AttackExpression: no '+' in front of a bonus of 0
AttackExpression_NoPlusForZero(bonus) ==
    <<"1", "d", "2", "0">> \o (IF bonus > 0 THEN <<"+">> ELSE <<>>) \o IntToString(bonus)

\* `1d20${bonus >= 0 ? '+' : ''}${bonus}`
AttackExpression(bonus) ==
    <<"1", "d", "2", "0">> \o (IF bonus >= 0 THEN <<"+">> ELSE <<>>) \o IntToString(bonus)

characterRolls(character) ==
    << [label |-> <<"A", "t", "t", "a", "c", "k", " ", "(", "M", "e", "l", "e", "e", ")">>,
        expression |-> AttackExpression(character.resources.meleeAtkBonus),
        description |-> <<"M", "e", "l", "e", "e", " ", "a", "t", "t", "a", "c", "k", " ", "r", "o", "l", "l">>],
       [label |-> <<"A", "t", "t", "a", "c", "k", " ", "(", "R", "a", "n", "g", "e", "d", ")">>,
        expression |-> AttackExpression(character.resources.rangedAtkBonus),
        description |-> <<"R", "a", "n", "g", "e", "d", " ", "a", "t", "t", "a", "c", "k", " ", "r", "o", "l", "l">>],
       [label |-> <<"S", "p", "e", "l", "l", " ", "A", "t", "t", "a", "c", "k">>,
        expression |-> AttackExpression(character.resources.spellcastingBonus),
        description |-> <<"S", "p", "e", "l", "l", " ", "a", "t", "t", "a", "c", "k", " ", "r", "o", "l", "l">>],
       [label |-> <<"S", "T", "R", " ", "S", "a", "v", "e">>,
        expression |-> <<"1", "d", "2", "0", "+", "S", "T", "R">>,
        description |-> <<"S", "t", "r", "e", "n", "g", "t", "h", " ", "s", "a", "v", "i", "n", "g", " ", "t", "h", "r", "o", "w">>],
       [label |-> <<"D", "E", "X", " ", "S", "a", "v", "e">>,
        expression |-> <<"1", "d", "2", "0", "+", "D", "E", "X">>,
        description |-> <<"D", "e", "x", "t", "e", "r", "i", "t", "y", " ", "s", "a", "v", "i", "n", "g", " ", "t", "h", "r", "o", "w">>],
       [label |-> <<"C", "O", "N", " ", "S", "a", "v", "e">>,
        expression |-> <<"1", "d", "2", "0", "+", "C", "O", "N">>,
        description |-> <<"C", "o", "n", "s", "t", "i", "t", "u", "t", "i", "o", "n", " ", "s", "a", "v", "i", "n", "g", " ", "t", "h", "r", "o", "w">>],
       [label |-> <<"I", "N", "T", " ", "S", "a", "v", "e">>,
        expression |-> <<"1", "d", "2", "0", "+", "I", "N", "T">>,
        description |-> <<"I", "n", "t", "e", "l", "l", "i", "g", "e", "n", "c", "e", " ", "s", "a", "v", "i", "n", "g", " ", "t", "h", "r", "o", "w">>],
       [label |-> <<"W", "I", "S", " ", "S", "a", "v", "e">>,
        expression |-> <<"1", "d", "2", "0", "+", "W", "I", "S">>,
        description |-> <<"W", "i", "s", "d", "o", "m", " ", "s", "a", "v", "i", "n", "g", " ", "t", "h", "r", "o", "w">>],
       [label |-> <<"C", "H", "A", " ", "S", "a", "v", "e">>,
        expression |-> <<"1", "d", "2", "0", "+", "C", "H", "A">>,
        description |-> <<"C", "h", "a", "r", "i", "s", "m", "a", " ", "s", "a", "v", "i", "n", "g", " ", "t", "h", "r", "o", "w">>] >>

\* DiceService.getCommonRolls(character)
getCommonRolls(character) ==
    IF ~character.defined THEN baseRolls
    ELSE baseRolls \o characterRolls(character)


----------------------------------------------------------------------------
(* DiceService.getSuggestions                                              *)

\* the characters of s from the first to the last that are not white space
trim(s) ==
    LET visible == { i \in 1..Len(s) : s[i] \notin Whitespace }
    IN  IF visible = {} THEN <<>>
        ELSE SubSeq(s, CHOOSE i \in visible : \A j \in visible : i <= j,
                    CHOOSE i \in visible : \A j \in visible : i >= j)

\* text.startsWith(prefix)
startsWith(text, prefix) ==
    Len(prefix) <= Len(text) /\ SubSeq(text, 1, Len(prefix)) = prefix

\* text.includes(part)
includes(text, part) ==
    \E i \in 1..(Len(text) - Len(part) + 1) : SubSeq(text, i, i + Len(part) - 1) = part

\* s.match(/^\d*d?\d*$/): the digits, the d if there is one, the digits after
\* it, and nothing left
MatchesDicePrefix(s) ==
    LET afterCount == DigitRun(s, 1) + 1
        afterD == IF afterCount <= Len(s) /\ s[afterCount] = "d"
                  THEN afterCount + 1 ELSE afterCount
    IN  afterD + DigitRun(s, afterD) = Len(s) + 1

\* [a-z], over the letters that occur in the modelled texts
IsLowerLetter(c) == \E i \in 1..Len(LowerChars) : LowerChars[i] = c

\* s.replace(/.*([a-z]{2,3}).*/, '$1'): the leading .* is greedy, so the
\* group starts at the last place where two letters follow each other, and
\* takes a third letter if there is one; the match is the whole text, which
\* becomes the group; a text without two adjacent letters is left as it is
LastLetterGroup(s) ==
    LET starts == { p \in 1..(Len(s) - 1) : IsLowerLetter(s[p]) /\ IsLowerLetter(s[p + 1]) }
    IN  IF starts = {} THEN s
        ELSE LET p == CHOOSE q \in starts : \A r \in starts : q >= r
             IN  IF p + 2 <= Len(s) /\ IsLowerLetter(s[p + 2])
                 THEN SubSeq(s, p, p + 2)
                 ELSE SubSeq(s, p, p + 1)

\* const nums = [4, 6, 8, 10, 12, 20, 100]
nums == <<4, 6, 8, 10, 12, 20, 100>>

\* what the body of nums.forEach pushes for one num
DiceSuggestions(cleaned, num) ==
    IF \/ startsWith(IntToString(num), cleaned)
       \/ startsWith(<<"d">> \o IntToString(num), cleaned)
    THEN << <<"1", "d">> \o IntToString(num) >>
         \o (IF num <= 20
             THEN << <<"2", "d">> \o IntToString(num), <<"3", "d">> \o IntToString(num) >>
             ELSE <<>>)
    ELSE <<>>

RECURSIVE BasicSuggestions(_, _)
\* nums.forEach(...) from nums[i] on
BasicSuggestions(cleaned, i) ==
    IF i > Len(nums) THEN <<>>
    ELSE DiceSuggestions(cleaned, nums[i]) \o BasicSuggestions(cleaned, i + 1)

RECURSIVE AttributeSuggestions(_, _)
\* attrs.forEach(...) from attrs[i] on
AttributeSuggestions(cleaned, i) ==
    IF i > Len(AttributeNames) THEN <<>>
    ELSE (IF startsWith(toLowerCase(AttributeNames[i]), LastLetterGroup(cleaned))
          THEN << <<"1", "d", "2", "0", "+">> \o AttributeNames[i] >>
          ELSE <<>>)
         \o AttributeSuggestions(cleaned, i + 1)

\* the suggestions before the slice
AllSuggestions(cleaned) ==
    (IF MatchesDicePrefix(cleaned) THEN BasicSuggestions(cleaned, 1) ELSE <<>>)
    \o (IF \E word \in AttributeWords : includes(cleaned, word)
        THEN AttributeSuggestions(cleaned, 1)
        ELSE <<>>)

\* a mutant of getSuggestions: the suggestions are not cut to five
getSuggestions_NoLimit(input) == AllSuggestions(trim(toLowerCase(input)))

\* DiceService.getSuggestions(input)
getSuggestions(input) ==
    LET suggestions == AllSuggestions(trim(toLowerCase(input)))
    IN  SubSeq(suggestions, 1, Min(5, Len(suggestions)))

----------------------------------------------------------------------------
(* The texts, characters and random values the calls are made with         *)

\* written dice counts: absent, zero, small, the largest allowed, too large
CountTexts ==
    { <<>>, <<"0">>, <<"0", "0">>, <<"1">>, <<"0", "3">>,
      <<"1", "0", "0">>, <<"1", "0", "1">> }

\* written sides: zero, small, 20, the largest allowed, too large
SidesTexts ==
    { <<"0">>, <<"1">>, <<"6">>, <<"2", "0">>,
      <<"1", "0", "0", "0">>, <<"1", "0", "0", "1">> }

Signs == {"+", "-"}

\* attribute tokens: a sign and one of the six attributes, in lower case
AttributeTokens == { <<sign>> \o word : sign \in Signs, word \in AttributeWords }

\* numeric modifiers
NumberTokens ==
    { <<"+", "3">>, <<"-", "2">>, <<"+", "0">>, <<"-", "1", "2">> }

\* tokens that neither expression accepts
JunkTokens == { <<"+">>, <<"+", "s", "t">>, <<"d", "6">> }

Tokens == AttributeTokens \cup NumberTokens \cup JunkTokens

\* what follows the sides: at most two tokens
Suffixes == { <<>> } \cup Tokens \cup { a \o b : a \in Tokens, b \in Tokens }

\* texts in lower case without white space
PlainTexts ==
    { count \o <<"d">> \o sides \o suffix :
        count \in CountTexts, sides \in SidesTexts, suffix \in Suffixes }

\* texts with capitals and white space, and texts that are no dice at all
OtherTexts ==
    { <<"1", "D", "2", "0">>,
      <<"1", "d", "2", "0", "+", "S", "T", "R">>,
      <<"1", "d", "2", "0", "+", "S", "t", "r", "+", "3">>,
      <<" ", "2", "d", "6", " ", "+", " ", "D", "E", "X", " ", "-", " ", "2", " ">>,
      <<"D", "2", "0", "\t", "-", "C", "H", "A">>,
      <<"1", " ", "0", "d", "6">>,
      <<"1", "0", "1", " ", "D", "6">>,
      <<"0", " ", "d", "6">>,
      <<>>,
      <<" ">>,
      <<"a", "b", "c">>,
      <<"d">>,
      <<"2", "0">>,
      <<"1", "d">>,
      <<"x", "1", "d", "6">>,
      <<"1", "d", "6", "x">>,
      <<"-", "1", "d", "6">>,
      <<"1", "d", "-", "6">>,
      <<"1", ".", "5", "d", "6">> }

\* the texts parseDiceExpression is called with
Texts == PlainTexts \cup OtherTexts

\* the texts isValidExpression is called with: at most one token after the
\* sides
ValidityTexts ==
    { count \o <<"d">> \o sides \o suffix :
        count \in CountTexts, sides \in SidesTexts, suffix \in { <<>> } \cup Tokens }
    \cup OtherTexts

\* the expressions rollDice is called with
RollTexts ==
    { <<"1", "d", "2", "0">>,
      <<"d", "2", "0">>,
      <<"1", "d", "2", "0", "+", "3">>,
      <<"1", "d", "2", "0", "-", "2">>,
      <<"1", "d", "2", "0", "+", "0">>,
      <<"1", "d", "2", "0", "+", "s", "t", "r">>,
      <<"1", "d", "2", "0", "-", "s", "t", "r">>,
      <<"1", "d", "2", "0", "+", "D", "E", "X", "+", "3">>,
      <<"1", "d", "2", "0", "-", "d", "e", "x", "+", "3">>,
      <<"0", "1", "d", "0", "2", "0">>,
      <<"2", "d", "2", "0">>,
      <<"2", "d", "2", "0", "+", "w", "i", "s", "-", "2">>,
      <<"1", "d", "6">>,
      <<"d", "6", "-", "c", "h", "a">>,
      <<"3", "d", "6", "+", "2">>,
      <<"1", "d", "1">>,
      <<"3", "d", "1", "0", "0", "0", "-", "i", "n", "t">>,
      <<"1", "0", "0", "d", "6", "+", "c", "o", "n", "-", "1", "2">>,
      <<"0", "d", "6">>,
      <<"1", "0", "1", "d", "6">>,
      <<"a", "b", "c">>,
      <<>> }

\* the attribute scores of two characters: from 3 to 20, odd and even, below
\* and above 10
LuckyScores == (STR :> 8 @@ DEX :> 15 @@ CON :> 10 @@ INT :> 3 @@ WIS :> 20 @@ CHA :> 7)

OtherScores == (STR :> 12 @@ DEX :> 11 @@ CON :> 9 @@ INT :> 18 @@ WIS :> 10 @@ CHA :> 13)

\* no character, one character with and without luck, another without
Characters ==
    { NoCharacter, Character(LuckyScores, TRUE), Character(LuckyScores, FALSE),
      Character(OtherScores, FALSE) }

\* the attack bonuses of the characters getCommonRolls is called with
AtkBonuses == {-2, 0, 3, 12}

\* no character, and a character for every choice of the three attack bonuses
CatalogCharacters ==
    { NoCharacter }
    \cup { CharacterWithBonuses(melee, ranged, spell) :
               melee \in AtkBonuses, ranged \in AtkBonuses, spell \in AtkBonuses }

\* what getSuggestions is called with: prefixes of dice expressions, attribute
\* words with letters around them, capitals and white space
SuggestionInputs ==
    { <<>>,
      <<"d">>,
      <<"1">>,
      <<"2">>,
      <<"3">>,
      <<"4">>,
      <<"6">>,
      <<"8">>,
      <<"d", "1">>,
      <<"d", "2">>,
      <<"d", "2", "0">>,
      <<"d", "8">>,
      <<"1", "0">>,
      <<"1", "2">>,
      <<"2", "0">>,
      <<"1", "0", "0">>,
      <<"1", "d">>,
      <<"2", "d", "6">>,
      <<"d", "1", "0", "0">>,
      <<"1", "0", "0", "0">>,
      <<"1", "d", "2", "0">>,
      <<" ", "D", " ">>,
      <<"\t", "1", " ">>,
      <<"D", "1", "0">>,
      <<"s", "t", "r">>,
      <<"d", "e", "x">>,
      <<"s", "t", "r", "i", "n">>,
      <<"d", "e", "x", "s", "t">>,
      <<"c", "h", "a", "c", "o">>,
      <<"S", "T", "R", "C", "H">>,
      <<"i", "n", "t", "w", "i">>,
      <<"1", "d", "2", "0", "+", "s", "t", "r">>,
      <<"c", "o", "n", "d", "e">>,
      <<"s", "t", "r", " ", "i", "n">>,
      <<"x">>,
      <<"d", "x">>,
      <<"d", " ", "d">>,
      <<"w", "i", "n", "t", "e", "r">>,
      <<"s", "t", "r", "d">>,
      <<" ", "C", "h", "a", "W", "i", "\t">> }

\* RollRequest: expression, character, advantage, disadvantage (a flag that
\* is left out is undefined, which behaves as false)
RollRequests ==
    [expression : RollTexts, character : Characters,
     advantage : BOOLEAN, disadvantage : BOOLEAN]

\* what secureRandom() can return: the numerators 0 .. RandScale - 1
RandomValues == 0..(RandScale - 1)

\* the random values of one call: two values, handed out in turn; the first
\* is any value, the second the lowest, the same as the first, or the highest
RandomSources ==
    { <<first, second>> : first \in RandomValues,
                          second \in {0, RandScale - 1} } \cup
    { <<first, first>> : first \in RandomValues }

----------------------------------------------------------------------------
(* The roll history of DiceService: saveDiceRoll, getRollHistory,          *)
(* clearSessionHistory                                                     *)

\* the sessions rolls are saved to
SessionIds == {"s1", "s2"}

\* how many rolls are saved to one session before it is cleared
MaxSaves == 102

\* the number of rolls kept per session: rolls.length > 100, rolls.length - 100
HistoryLimit == 100

\* the n-th DiceRoll that is saved to a session; the fields the history does
\* not look at are left out
DiceRollOf(sessionId, n) == [id |-> n, sessionId |-> sessionId]

\* new Map<string, DiceRoll[]>()
EmptyHistory == [sessionId \in {} |-> <<>>]

\* localStorage.getItem(STORAGE_KEY) before anything was stored
NoStorage == Null

\* rolls.splice(0, n): rolls without its first n entries
splice(rolls, n) == SubSeq(rolls, n + 1, Len(rolls))

\* map.set(key, value)
MapSet(map, key, value) ==
    [k \in (DOMAIN map) \cup {key} |-> IF k = key THEN value ELSE map[k]]

\* map.delete(key)
MapDelete(map, key) == [k \in (DOMAIN map) \ {key} |-> map[k]]

\* a mutant of saveDiceRoll: a full history keeps its oldest entries
saveDiceRoll_KeepsOldest(history, sessionId, diceRoll) ==
    LET rolls == Append(IF sessionId \in DOMAIN history THEN history[sessionId] ELSE <<>>,
                        diceRoll)
    IN  MapSet(history, sessionId,
               IF Len(rolls) > HistoryLimit THEN SubSeq(rolls, 1, HistoryLimit) ELSE rolls)

\* DiceService.saveDiceRoll(sessionId, diceRoll): the map it leaves
saveDiceRoll(history, sessionId, diceRoll) ==
    LET rolls == Append(IF sessionId \in DOMAIN history THEN history[sessionId] ELSE <<>>,
                        diceRoll)
    IN  MapSet(history, sessionId,
               IF Len(rolls) > HistoryLimit
               THEN splice(rolls, Len(rolls) - HistoryLimit)
               ELSE rolls)

\* this.rollHistory.get(sessionId) || []
getRollHistory(sessionId) ==
    IF sessionId \in DOMAIN rollHistory THEN rollHistory[sessionId] ELSE <<>>

\* saveToStorage: the entries of the map, as localStorage keeps them
saveToStorage(history) == [isNull |-> FALSE, entries |-> history]

\* no roll has been saved
HistoryAtStart ==
    /\ rollHistory = EmptyHistory
    /\ storage = NoStorage
    /\ saved = [sessionId \in SessionIds |-> 0]

----------------------------------------------------------------------------
(* The DiceRoller component (components/DiceRoller.tsx): its state and     *)
(* its handlers                                                            *)

\* how far the - and + buttons move the modifier away from 0
MaxModifier == 1

\* the character prop of a DiceRoller that is given one
RollerCharacter ==
    [defined |-> TRUE, basicAttributes |-> OtherScores,
     resources |-> [luck |-> TRUE, meleeAtkBonus |-> 3, rangedAtkBonus |-> 0,
                    spellcastingBonus |-> -2]]

\* the useState values of the first render; description, lastResult and
\* quickRollMode, which no handler reads to decide anything, are left out
InitialState(character) ==
    [character |-> character,
     expression |-> <<"1", "d", "2", "0">>,
     modifier |-> 0,
     selectedAttribute |-> <<>>,
     advantage |-> FALSE,
     disadvantage |-> FALSE,
     isRolling |-> FALSE]

\* buildFinalExpression()
buildFinalExpression(state) ==
    state.expression
    \o (IF state.modifier # 0
        THEN (IF state.modifier >= 0 THEN <<"+">> ELSE <<>>) \o IntToString(state.modifier)
        ELSE <<>>)
    \o (IF state.selectedAttribute # <<>> /\ state.character.defined
        THEN <<"+">> \o state.selectedAttribute
        ELSE <<>>)

\* const request: RollRequest = { expression: buildFinalExpression(),
\* character, advantage, disadvantage, description }, without the description
BuildRequest(state) ==
    [expression |-> buildFinalExpression(state),
     character |-> state.character,
     advantage |-> state.advantage,
     disadvantage |-> state.disadvantage]

\* handleQuickDice(sides, count)
handleQuickDice(state, sides, count) ==
    [state EXCEPT !.expression = IntToString(count) \o <<"d">> \o IntToString(sides),
                  !.modifier = 0,
                  !.selectedAttribute = <<>>,
                  !.advantage = FALSE,
                  !.disadvantage = FALSE]

\* handleCommonRoll(rollExpression)
handleCommonRoll(state, rollExpression) ==
    [state EXCEPT !.expression = rollExpression,
                  !.modifier = 0,
                  !.selectedAttribute = <<>>]

\* a mutant of handleAdvantageToggle: switching one flag on leaves the other
handleAdvantageToggle_Independent(state, type) ==
    IF type = "advantage"
    THEN [state EXCEPT !.advantage = ~state.advantage]
    ELSE [state EXCEPT !.disadvantage = ~state.disadvantage]

\* handleAdvantageToggle(type)
handleAdvantageToggle(state, type) ==
    IF type = "advantage"
    THEN [state EXCEPT !.advantage = ~state.advantage,
                       !.disadvantage = IF ~state.advantage THEN FALSE ELSE @]
    ELSE [state EXCEPT !.disadvantage = ~state.disadvantage,
                       !.advantage = IF ~state.disadvantage THEN FALSE ELSE @]

\* handleReset()
handleReset(state) ==
    [state EXCEPT !.expression = <<"1", "d", "2", "0">>,
                  !.modifier = 0,
                  !.selectedAttribute = <<>>,
                  !.advantage = FALSE,
                  !.disadvantage = FALSE]

\* parseInt(e.target.value) || 0 for the value of a number input: empty, or
\* digits with or without a minus sign
ParseModifierInput(value) ==
    IF value = <<>> THEN 0
    ELSE IF value[1] = "-" THEN 0 - DecimalValue(Substring(value, 2))
    ELSE DecimalValue(value)

\* what is typed into the expression input
TypedExpressions == { <<"a", "b", "c">>, <<"2", "d", "8", "-", "1">> }

\* what is typed into the modifier input
TypedModifiers == { <<>>, <<"-", "1">>, <<"1">> }

\* the values of the attribute select that are chosen
SelectedAttributes == { <<>>, STR }

\* the quick dice buttons that are clicked, of [4, 6, 8, 10, 12, 20, 100]
QuickDice == {6, 20, 100}

\* commonRolls.slice(-6): the entries that get a button
ShownCommonRolls(commonRolls) == SubSeq(commonRolls, Len(commonRolls) - 5, Len(commonRolls))

\* the common roll buttons that are clicked: the first and the last
CommonRollChoices == {1, 6}

\* the values secureRandom() hands out to a roll of the component
RollerRandomSources == { <<0, RandScale - 1>>, <<RandScale - 1, 0>> }

\* a DiceRoller without a character, rendered and not touched
RollerAtStart ==
    /\ roller = InitialState(NoCharacter)
    /\ closure = Null
    /\ completed = Null

----------------------------------------------------------------------------
(* SessionService (services/SessionService.ts)                             *)

\* const chars = 'ABCDEFGHIJKLMNOPQRSTUVWXYZ0123456789'
TokenChars ==
    <<"A", "B", "C", "D", "E", "F", "G", "H", "I", "J", "K", "L", "M",
      "N", "O", "P", "Q", "R", "S", "T", "U", "V", "W", "X", "Y", "Z",
      "0", "1", "2", "3", "4", "5", "6", "7", "8", "9">>

\* private static readonly SESSION_TIMEOUT = 24 * 60 * 60 * 1000
SESSION_TIMEOUT == 24 * 60 * 60 * 1000

\* how many times the clock is read at a later time than before
MaxTicks == 2

\* generateSessionToken(), Math.random() handing out rnd[1] .. rnd[6] as
\* numerators of RandScale
generateSessionToken(rnd) ==
    [i \in 1..6 |-> TokenChars[((rnd[i] * Len(TokenChars)) \div RandScale) + 1]]

\* /^[A-Z0-9]{6}$/.test(token)
isValidTokenFormat(token) ==
    /\ Len(token) = 6
    /\ \A i \in 1..6 : \E j \in 1..Len(TokenChars) : TokenChars[j] = token[i]

\* username.trim().length >= 2 && username.trim().length <= 30
isValidUsername(username) ==
    Len(trim(username)) >= 2 /\ Len(trim(username)) <= 30

GameMaster == <<"G", "a", "m", "e", " ", "M", "a", "s", "t", "e", "r">>

UsernameError ==
    <<"U", "s", "e", "r", "n", "a", "m", "e", " ", "m", "u", "s", "t", " ",
      "b", "e", " ", "b", "e", "t", "w", "e", "e", "n", " ", "2", " ", "a",
      "n", "d", " ", "3", "0", " ", "c", "h", "a", "r", "a", "c", "t", "e",
      "r", "s">>

TokenError ==
    <<"S", "e", "s", "s", "i", "o", "n", " ", "t", "o", "k", "e", "n", " ",
      "m", "u", "s", "t", " ", "b", "e", " ", "6", " ", "c", "h", "a", "r",
      "a", "c", "t", "e", "r", "s", " ", "(", "l", "e", "t", "t", "e", "r",
      "s", " ", "a", "n", "d", " ", "n", "u", "m", "b", "e", "r", "s", " ",
      "o", "n", "l", "y", ")">>

\* `gm-${Date.now()}-${Math.random().toString(36).substr(2, 9)}` and the
\* same with player-: the prefix, the time and the random number
UserId(prefix, time, r) == <<prefix, time, r>>

\* `gm-${Date.now()}`
MockGmId(time) == <<"gm", time>>

\* a User
User(id, username, role, sessionId) ==
    [id |-> id, username |-> username, role |-> role, currentSessionId |-> sessionId]

\* a GameSession as createGMSession and validateAndJoinSession make it
NewSession(sessionId, gmId) ==
    [id |-> sessionId,
     gmId |-> gmId,
     players |-> <<>>,
     torchState |-> [isRunning |-> FALSE, startTime |-> 0, duration |-> 0,
                     remainingTime |-> 0],
     playerOrder |-> <<>>]

\* the SessionStorage that is written: { user, session, character: null,
\* lastActivity: Date.now() }
SessionData(user, session, time) ==
    [isNull |-> FALSE, user |-> user, session |-> session, character |-> Null,
     lastActivity |-> time]

\* a mutant of IsExpired: data expires as soon as the 24 hours are reached
IsExpired_AtTimeout(data, time) == time - data.lastActivity >= SESSION_TIMEOUT

\* Date.now() - data.lastActivity > this.SESSION_TIMEOUT
IsExpired(data, time) == time - data.lastActivity > SESSION_TIMEOUT

\* what loadFromStorage() returns for what is stored, at a time
loadFromStorage(stored, time) ==
    IF stored = Null THEN Null
    ELSE IF IsExpired(stored, time) THEN Null
    ELSE stored

\* what loadFromStorage() leaves in localStorage: an expired entry is removed
StorageAfterLoad(stored, time) ==
    IF stored = Null THEN Null
    ELSE IF IsExpired(stored, time) THEN Null
    ELSE stored

\* what updateActivity() leaves in localStorage
StorageAfterUpdate(stored, time) ==
    IF loadFromStorage(stored, time) # Null
    THEN [loadFromStorage(stored, time) EXCEPT !.lastActivity = time]
    ELSE StorageAfterLoad(stored, time)

\* the user names the calls are made with
Usernames ==
    { <<>>, <<" ", "a", " ">>, <<" ", "A", "l", " ">>, [i \in 1..31 |-> "x"] }

\* the values Math.random() hands out to createGMSession: six for the token
\* and one for the id of the user
TokenTapes ==
    { <<0, 0, 0, 0, 0, 0, 0>>,
      <<0, 0, 0, 0, 0, 0, RandScale - 1>>,
      <<RandScale - 1, 0, RandScale - 1, 0, RandScale - 1, 0, 0>> }

\* the tokens validateAndJoinSession is called with
TokenInputs ==
    { <<"a", "a", "a", "a", "a", "a">>, <<" ", "c", "0", "D", "E", "9", "9", " ">>,
      <<"a", "a", "a">>, <<"a", "a", "a", "a", "a", "-">> }

\* no session has been created, nothing is stored, the clock is at 0
SessionAtStart ==
    /\ now = 0
    /\ activeSessions = [token \in {} |-> Null]
    /\ sessionStore = Null

----------------------------------------------------------------------------
(* InitiativeTracker (components/StartingPage.tsx, the tracker component)  *)

\* how many rounds a combat is followed for
MaxRounds == 3

\* the sessionCharacters the component is rendered with
sessionCharacters ==
    << [id |-> "c1", characterName |-> <<"A", "l">>, maxHP |-> 1, HP |-> 1, AC |-> 12] >>

\* the entry addPlayerCharacters makes of a character
PlayerEntry(character) ==
    [id |-> <<"player", character.id>>,
     name |-> character.characterName,
     initiative |-> 0,
     maxHP |-> character.maxHP,
     currentHP |-> character.HP,
     ac |-> character.AC,
     type |-> "player"]

\* a || b for numbers: 0 (and NaN, which parseInt(..) || d never lets in) is
\* falsy
OrElse(a, b) == IF a # 0 THEN a ELSE b

\* the entry handleAddEntry makes of the newEntry form
NpcEntry(newEntry, stamp) ==
    [id |-> <<"entry", stamp>>,
     name |-> newEntry.name,
     initiative |-> OrElse(newEntry.initiative, 0),
     maxHP |-> OrElse(newEntry.maxHP, 1),
     currentHP |-> OrElse(newEntry.currentHP, OrElse(newEntry.maxHP, 1)),
     ac |-> OrElse(newEntry.ac, 10),
     type |-> newEntry.type]

\* the position entry takes in a list sorted by (a, b) => b.initiative -
\* a.initiative: behind every entry that does not come after it
RECURSIVE InsertByInitiative(_, _)
InsertByInitiative(sorted, entry) ==
    IF sorted = <<>> THEN <<entry>>
    ELSE IF Head(sorted).initiative >= entry.initiative
    THEN <<Head(sorted)>> \o InsertByInitiative(Tail(sorted), entry)
    ELSE <<entry>> \o sorted

\* list.sort((a, b) => b.initiative - a.initiative): a stable sort, highest
\* initiative first
RECURSIVE SortByInitiative(_)
SortByInitiative(list) ==
    IF list = <<>> THEN <<>>
    ELSE InsertByInitiative(SortByInitiative(SubSeq(list, 1, Len(list) - 1)),
                            list[Len(list)])

\* self.findIndex(e => e.id === id), from 1
FindIndex(list, id) ==
    IF \E i \in 1..Len(list) : list[i].id = id
    THEN CHOOSE i \in 1..Len(list) :
             list[i].id = id /\ \A j \in 1..(i - 1) : list[j].id # id
    ELSE 0

\* list.filter((entry, index, self) => index === self.findIndex(e => e.id
\* === entry.id)): the first entry of every id
RECURSIVE FirstOfEachId(_, _)
FirstOfEachId(list, i) ==
    IF i > Len(list) THEN <<>>
    ELSE IF FindIndex(list, list[i].id) = i
    THEN <<list[i]>> \o FirstOfEachId(list, i + 1)
    ELSE FirstOfEachId(list, i + 1)

\* the useState values of the component as it is mounted, nothing being
\* stored
TrackerInitialState ==
    [initiativeList |-> <<>>,
     currentTurn |-> 0,
     roundNumber |-> 1,
     isRunning |-> FALSE,
     editingEntry |-> Null]

\* what saveInitiativeData(list, turn, round, running) writes to
\* localStorage
InitiativeData(list, turn, round, running) ==
    [initiativeList |-> list, currentTurn |-> turn, roundNumber |-> round,
     isRunning |-> running]

\* what the handlers below have saved: each of them but handleEditEntry
\* saves the list, the turn, the round and isRunning it leaves
SavedTracker(t) ==
    InitiativeData(t.initiativeList, t.currentTurn, t.roundNumber, t.isRunning)

\* addPlayerCharacters(): the list is not sorted again
addPlayerCharacters(t) ==
    LET playerEntries == [i \in 1..Len(sessionCharacters) |->
                              PlayerEntry(sessionCharacters[i])]
    IN  [t EXCEPT !.initiativeList = FirstOfEachId(@ \o playerEntries, 1)]

\* handleAddEntry() with a name that is not blank
handleAddEntry(t, newEntry, stamp) ==
    [t EXCEPT !.initiativeList =
                  SortByInitiative(Append(@, NpcEntry(newEntry, stamp)))]

\* handleEditEntry(entry)
handleEditEntry(t, entry) == [t EXCEPT !.editingEntry = entry]

\* the onChange of the Initiative field of the edit form
setEditingInitiative(t, value) ==
    [t EXCEPT !.editingEntry.initiative = OrElse(value, 0)]

\* handleSaveEdit() while an entry is edited
handleSaveEdit(t) ==
    [t EXCEPT !.initiativeList =
                  SortByInitiative([i \in 1..Len(@) |->
                      IF @[i].id = t.editingEntry.id THEN t.editingEntry ELSE @[i]]),
              !.editingEntry = Null]

\* a mutant of handleDeleteEntry: the turn stays where it is
handleDeleteEntry_KeepsTurn(t, entryId) ==
    [t EXCEPT !.initiativeList = SelectSeq(@, LAMBDA entry : entry.id # entryId)]

\* handleDeleteEntry(entryId); currentTurn counts from 0
handleDeleteEntry(t, entryId) ==
    LET updatedList == SelectSeq(t.initiativeList, LAMBDA entry : entry.id # entryId)
    IN  [t EXCEPT !.initiativeList = updatedList,
                  !.currentTurn = IF @ >= Len(updatedList) THEN 0 ELSE @]

\* a mutant of handleNextTurn: the round is counted up at every turn
handleNextTurn_CountsEveryTurn(t) ==
    IF Len(t.initiativeList) = 0 THEN t
    ELSE IF t.currentTurn + 1 >= Len(t.initiativeList)
    THEN [t EXCEPT !.currentTurn = 0, !.roundNumber = @ + 1]
    ELSE [t EXCEPT !.currentTurn = @ + 1, !.roundNumber = @ + 1]

\* handleNextTurn()
handleNextTurn(t) ==
    IF Len(t.initiativeList) = 0 THEN t
    ELSE IF t.currentTurn + 1 >= Len(t.initiativeList)
    THEN [t EXCEPT !.currentTurn = 0, !.roundNumber = @ + 1]
    ELSE [t EXCEPT !.currentTurn = @ + 1]

\* handleStartCombat() with a list that is not empty
handleStartCombat(t) == [t EXCEPT !.isRunning = ~@]

\* handleResetCombat()
handleResetCombat(t) ==
    [t EXCEPT !.currentTurn = 0, !.roundNumber = 1, !.isRunning = FALSE]

\* handleClearAll()
handleClearAll(t) ==
    [t EXCEPT !.initiativeList = <<>>, !.currentTurn = 0, !.roundNumber = 1,
              !.isRunning = FALSE]

\* handleHPChange(entryId, newHP)
handleHPChange(t, entryId, newHP) ==
    [t EXCEPT !.initiativeList =
                  [i \in 1..Len(t.initiativeList) |->
                      IF t.initiativeList[i].id = entryId
                      THEN [t.initiativeList[i] EXCEPT
                               !.currentHP = Max(0, Min(t.initiativeList[i].maxHP, newHP))]
                      ELSE t.initiativeList[i]]]

\* what the Add Entry dialog is filled with: a blank name or a name, an
\* initiative below or above that of a player
NewEntries ==
    [name : { <<" ">>, <<"O", "r", "c">> }, initiative : {-1, 1}, maxHP : {1},
     currentHP : {1}, ac : {10}, type : {"npc"}]

\* the time and random number that make the id of an added entry
EntryStamps == {1, 2}

\* what is typed into the Initiative field of the edit form, after parseInt
EditedInitiatives == {0, 2}

\* the component is mounted with nothing stored
TrackerAtStart ==
    /\ tracker = TrackerInitialState
    /\ trackerStorage = Null

----------------------------------------------------------------------------
(* TorchIndicator (components/TorchIndicator.tsx)                          *)

\* how many minutes pass while the component is shown
MaxMinutes == 2

\* a minute, in milliseconds: 1000 * 60
Minute == 1000 * 60

OnlyTheGM == "Only the GM can control the torch"

\* the component as it is mounted at a time with a session's torchState;
\* toast is the last message it showed, updates the last argument it passed
\* to onSessionUpdate
TorchMounted(isGM, torchState, time) ==
    [isGM |-> isGM,
     torchState |-> torchState,
     isEditingTime |-> FALSE,
     tempMinutes |-> torchState.remainingMinutes,
     currentTime |-> time,
     toast |-> "",
     updates |-> Null]

\* startedAt: undefined, or the time the torch was lit at
NoStart == [undefined |-> TRUE]

StartedAt(time) == [undefined |-> FALSE, time |-> time]

\* !session.torchState.startedAt
NotStarted(torchState) ==
    IF torchState.startedAt = NoStart THEN TRUE ELSE torchState.startedAt.time = 0

\* getRemainingTime().minutes; time goes by whole minutes here, so that
\* seconds is 0
RemainingMinutes(t) ==
    IF ~t.torchState.isRunning \/ NotStarted(t.torchState)
    THEN t.torchState.remainingMinutes
    ELSE Max(0, t.torchState.remainingMinutes
                    - ((t.currentTime - t.torchState.startedAt.time) \div Minute))

\* onSessionUpdate({ torchState: newState }): the parent renders the
\* component with the session it has updated
onSessionUpdate(t, newState) ==
    [t EXCEPT !.torchState = newState, !.updates = [torchState |-> newState]]

\* a mutant of handleTorchToggle: anyone can toggle
handleTorchToggle_Anyone(t, time) ==
    IF ~t.torchState.isRunning
    THEN [onSessionUpdate(t, [t.torchState EXCEPT !.isRunning = TRUE,
                                                  !.startedAt = StartedAt(time)])
             EXCEPT !.toast = "Torch lit! Time is now counting down"]
    ELSE [onSessionUpdate(t, [t.torchState EXCEPT !.isRunning = FALSE,
                                                  !.startedAt = NoStart])
             EXCEPT !.toast = "Torch paused"]

\* handleTorchToggle() at a time, but for its call of updateActivity
handleTorchToggle(t, time) ==
    IF ~t.isGM THEN [t EXCEPT !.toast = OnlyTheGM]
    ELSE IF ~t.torchState.isRunning
    THEN [onSessionUpdate(t, [t.torchState EXCEPT !.isRunning = TRUE,
                                                  !.startedAt = StartedAt(time)])
             EXCEPT !.toast = "Torch lit! Time is now counting down"]
    ELSE [onSessionUpdate(t,
              [t.torchState EXCEPT
                  !.isRunning = FALSE,
                  !.remainingMinutes =
                      IF NotStarted(t.torchState) THEN @
                      ELSE Max(0, @ - ((time - t.torchState.startedAt.time) \div Minute)),
                  !.startedAt = NoStart])
             EXCEPT !.toast = "Torch paused"]

\* handleResetTorch(), but for its call of updateActivity
handleResetTorch(t) ==
    IF ~t.isGM THEN [t EXCEPT !.toast = OnlyTheGM]
    ELSE [onSessionUpdate(t, [isRunning |-> FALSE, remainingMinutes |-> 60,
                              startedAt |-> NoStart])
             EXCEPT !.toast = "Torch reset to 60 minutes"]

\* handleTimeEdit()
handleTimeEdit(t) ==
    IF ~t.isGM THEN [t EXCEPT !.toast = OnlyTheGM]
    ELSE IF t.isEditingTime
    THEN [onSessionUpdate(t, [t.torchState EXCEPT
                                 !.remainingMinutes = Max(0, Min(300, t.tempMinutes)),
                                 !.isRunning = FALSE,
                                 !.startedAt = NoStart])
             EXCEPT !.isEditingTime = FALSE, !.toast = "Torch set to minutes"]
    ELSE [t EXCEPT !.tempMinutes = RemainingMinutes(t), !.isEditingTime = TRUE]

\* handleTimeCancel()
handleTimeCancel(t) ==
    [t EXCEPT !.tempMinutes = t.torchState.remainingMinutes, !.isEditingTime = FALSE]

\* the torchState of the session the component is mounted with: a torch
\* that waits, and one that was lit at TorchEpoch
TorchEpoch == 1000 * Minute

TorchStates ==
    { [isRunning |-> FALSE, remainingMinutes |-> 60, startedAt |-> NoStart],
      [isRunning |-> TRUE, remainingMinutes |-> 1, startedAt |-> StartedAt(TorchEpoch)] }

\* what is typed into the minutes field, after parseInt(..) || 0
TypedMinutes == {-5, 0, 400}

\* the component as it is mounted at TorchEpoch, for the GM or for a player
MountedTorches ==
    {TorchMounted(isGM, torchState, TorchEpoch) :
         isGM \in BOOLEAN, torchState \in TorchStates}

\* the component is not mounted
TorchAtStart == torch = Null

----------------------------------------------------------------------------
(* CharacterService (services/CharacterService.ts)                         *)

\* the keys of CharacterValidationResult.errors in the order
\* validateCharacter sets them, each with the message it is left with; ""
\* says that the key is not set
CharacterNameError(data) ==
    IF trim(data.characterName) = <<>> THEN "Character name is required"
    ELSE IF Len(trim(data.characterName)) < 2
    THEN "Character name must be at least 2 characters"
    ELSE IF Len(trim(data.characterName)) > 50
    THEN "Character name must be less than 50 characters"
    ELSE ""

PlayerNameError(data) ==
    IF trim(data.playerName) = <<>> THEN "Player name is required"
    ELSE IF Len(trim(data.playerName)) < 2
    THEN "Player name must be at least 2 characters"
    ELSE ""

AncestryError(data) ==
    IF trim(data.ancestry) = <<>> THEN "Ancestry is required" ELSE ""

ClassError(data) ==
    IF trim(data.class) = <<>> THEN "Class is required" ELSE ""

BackgroundError(data) ==
    IF trim(data.background) = <<>> THEN "Background is required" ELSE ""

\* [attrs.STR, attrs.DEX, attrs.CON, attrs.INT, attrs.WIS, attrs.CHA]
AttributeValues(attrs) == [i \in 1..Len(AttributeNames) |-> attrs[AttributeNames[i]]]

\* attributeValues.reduce((sum, val) => sum + val, 0)
RECURSIVE TotalPoints(_, _)
TotalPoints(values, i) ==
    IF i > Len(values) THEN 0 ELSE values[i] + TotalPoints(values, i + 1)

\* the second test overwrites the message of the first
AttributesError(data) ==
    LET values == AttributeValues(data.basicAttributes)
    IN  IF TotalPoints(values, 1) < 48 \/ TotalPoints(values, 1) > 90
        THEN "Total attribute points should be between 48 and 90"
        ELSE IF \E i \in 1..Len(values) : values[i] < 3 \/ values[i] > 20
        THEN "Attributes must be between 3 and 20"
        ELSE ""

\* each test overwrites the message of the tests before it
ResourcesError(data) ==
    LET res == data.resources
    IN  IF res.HP > res.maxHP THEN "Current HP cannot exceed Max HP"
        ELSE IF res.HP < 1 \/ res.maxHP < 1 THEN "HP and Max HP must be at least 1"
        ELSE IF res.level < 1 \/ res.level > 20 THEN "Level must be between 1 and 20"
        ELSE ""

\* Object.values(validation.errors)
ErrorValues(data) ==
    SelectSeq(<<CharacterNameError(data), PlayerNameError(data), AncestryError(data),
                ClassError(data), BackgroundError(data), AttributesError(data),
                ResourcesError(data)>>,
              LAMBDA message : message # "")

\* a mutant of validateCharacter: the resources are not looked at
validateCharacter_IgnoresResources(data) ==
    [isValid |-> Len(SelectSeq(ErrorValues(data),
                               LAMBDA message : message # ResourcesError(data))) = 0,
     errors |-> ErrorValues(data)]

\* validateCharacter(data)
validateCharacter(data) ==
    [isValid |-> Len(ErrorValues(data)) = 0, errors |-> ErrorValues(data)]

\* calculateAC of a character without armor: 10 and the DEX modifier, which
\* CharacterService.calculateModifier computes as DiceService does
calculateAC(basicAttributes) == 10 + Min(calculateModifier(basicAttributes[DEX]), 999)

\* `char-${Date.now()}-${Math.random()...}`
CharacterId(stamp) == <<"char", stamp>>

\* the Character createCharacter makes of valid data
NewCharacter(data, userId, sessionId, stamp) ==
    [id |-> CharacterId(stamp),
     userId |-> userId,
     sessionId |-> sessionId,
     characterInfo |-> [characterName |-> trim(data.characterName),
                        playerName |-> trim(data.playerName),
                        ancestry |-> trim(data.ancestry),
                        class |-> trim(data.class),
                        background |-> trim(data.background),
                        deity |-> trim(data.deity),
                        characterImage |-> data.characterImage],
     basicAttributes |-> data.basicAttributes,
     resources |-> [data.resources EXCEPT !.AC = calculateAC(data.basicAttributes)],
     weapons |-> <<>>, armor |-> <<>>, equipment |-> <<>>, spells |-> <<>>,
     talents |-> <<>>]

\* 'Character validation failed: ' + Object.values(validation.errors).join(', ')
ValidationFailed(data) ==
    [message |-> "Character validation failed: ", joined |-> validateCharacter(data).errors]

\* getCharacter(characterId)
getCharacter(store, characterId) ==
    IF characterId \in DOMAIN store THEN store[characterId] ELSE Null

\* getCharactersByUser(userId), as the set of what it returns
getCharactersByUser(store, userId) ==
    {store[id] : id \in {i \in DOMAIN store : store[i].userId = userId}}

\* getCharactersBySession(sessionId), as the set of what it returns
getCharactersBySession(store, sessionId) ==
    {store[id] : id \in {i \in DOMAIN store : store[i].sessionId = sessionId}}

\* the data of a character that is valid
Scores(value) == [name \in {STR, DEX, CON, INT, WIS, CHA} |-> value]

ValidData ==
    [characterName |-> <<" ", "B", "o", " ">>,
     playerName |-> <<"A", "l">>,
     ancestry |-> <<"E", "l", "f">>,
     class |-> <<"B", "a", "r", "d">>,
     background |-> <<"S", "a", "g", "e">>,
     deity |-> <<>>,
     characterImage |-> <<>>,
     basicAttributes |-> Scores(10),
     resources |-> [level |-> 1, HP |-> 8, maxHP |-> 8, AC |-> 10, meleeAtkBonus |-> 0,
                    rangedAtkBonus |-> 0, spellcastingBonus |-> 0, luck |-> FALSE]]

\* valid data at the low end of what is valid, and at the high end
LowData ==
    [ValidData EXCEPT !.characterName = <<"B", "o">>,
                      !.basicAttributes = [Scores(6) EXCEPT ![STR] = 3, ![DEX] = 7,
                                                            ![CHA] = 20],
                      !.resources.HP = 1]

HighData ==
    [ValidData EXCEPT !.characterName = [i \in 1..50 |-> "x"],
                      !.basicAttributes = [Scores(17) EXCEPT ![STR] = 3, ![DEX] = 16,
                                                             ![CHA] = 20],
                      !.resources.level = 20]

\* the data createCharacter is called with: the valid data above, and the
\* valid data with one part changed to a value that is not valid
CharacterData ==
    {ValidData, LowData, HighData}
    \cup {[ValidData EXCEPT !.characterName = name] :
              name \in { <<" ", " ">>, <<" ", "B", " ">>, [i \in 1..51 |-> "x"] }}
    \cup {[ValidData EXCEPT !.playerName = name] : name \in { <<" ">>, <<"A">> }}
    \cup {[ValidData EXCEPT !.ancestry = <<" ">>], [ValidData EXCEPT !.class = <<>>],
          [ValidData EXCEPT !.background = <<>>]}
    \cup {[ValidData EXCEPT !.basicAttributes = [Scores(10) EXCEPT ![STR] = 2]],
          [ValidData EXCEPT !.basicAttributes = [Scores(10) EXCEPT ![CHA] = 21]],
          [ValidData EXCEPT !.basicAttributes = [Scores(8) EXCEPT ![STR] = 7]],
          [ValidData EXCEPT !.basicAttributes = [Scores(15) EXCEPT ![STR] = 16]]}
    \cup {[ValidData EXCEPT !.resources.level = level] : level \in {0, 21}}
    \cup {[ValidData EXCEPT !.resources.HP = HP] : HP \in {0, 9}}
    \cup {[ValidData EXCEPT !.resources.HP = 0, !.resources.maxHP = 0]}

\* the users and sessions of the calls: each user plays in a session
CharacterUsers == {"u1", "u2"}

CharacterSessions == {"AAAAAA", "AAAAA9"}

SessionOf(userId) == IF userId = "u1" THEN "AAAAAA" ELSE "AAAAA9"

\* the time and random number that make the id of a character
CharacterStamps == {1, 2}

\* no character has been created, nothing is stored
CharactersAtStart ==
    /\ characters = [id \in {} |-> Null]
    /\ characterStorage = Null

----------------------------------------------------------------------------
(* CharacterCard (components/CharacterCard.tsx)                            *)

\* the component as it is mounted with a character; toast is the last
\* message it showed, updates the last argument it passed to
\* onCharacterUpdate
CardMounted(resources) ==
    [character |-> [resources |-> resources],
     isEditingHP |-> FALSE,
     tempHP |-> resources.HP,
     toast |-> Null,
     updates |-> Null]

\* onCharacterUpdate({ resources }): the parent renders the component with
\* the character it has updated
onCharacterUpdate(c, resources) ==
    [c EXCEPT !.character.resources = resources,
              !.updates = [resources |-> resources]]

\* a mutant of handleHPChange: the new HP is not kept within 0..maxHP
CardHPChange_Unclamped(c, delta) ==
    [onCharacterUpdate(c, [c.character.resources EXCEPT !.HP = @ + delta])
        EXCEPT !.toast = IF delta > 0 THEN [healed |-> delta]
                         ELSE [damage |-> IF delta < 0 THEN -delta ELSE delta]]

\* CharacterCard.handleHPChange(delta)
CardHPChange(c, delta) ==
    [onCharacterUpdate(c, [c.character.resources EXCEPT
                              !.HP = Max(0, Min(c.character.resources.maxHP, @ + delta))])
        EXCEPT !.toast = IF delta > 0 THEN [healed |-> delta]
                         ELSE [damage |-> IF delta < 0 THEN -delta ELSE delta]]

\* handleHPEdit()
handleHPEdit(c) ==
    IF c.isEditingHP
    THEN [onCharacterUpdate(c, [c.character.resources EXCEPT
                                   !.HP = Max(0, Min(c.character.resources.maxHP, c.tempHP))])
             EXCEPT !.isEditingHP = FALSE, !.toast = [text |-> "HP updated"]]
    ELSE [c EXCEPT !.tempHP = c.character.resources.HP, !.isEditingHP = TRUE]

\* handleHPCancel()
handleHPCancel(c) ==
    [c EXCEPT !.tempHP = c.character.resources.HP, !.isEditingHP = FALSE]

\* the resources of the character the card is mounted with: HP within
\* 0..maxHP
CardResources ==
    { [HP |-> 1, maxHP |-> 1, AC |-> 10], [HP |-> 3, maxHP |-> 7, AC |-> 12] }

\* what is typed into the HP field, after parseInt(..) || 0
TypedHP == {-3, 0, 4, 12}

\* the component is not mounted
CardAtStart == card = Null

----------------------------------------------------------------------------
(* The state every part of the application starts in                     *)

\* no call of a service has been made
NoCallMade ==
    /\ call = [op |-> "none"]
    /\ random = <<>>
    /\ ret = Pending

\* every part that is not a service call is as it starts
AtStartBesidesDice ==
    /\ HistoryAtStart
    /\ RollerAtStart
    /\ SessionAtStart
    /\ TrackerAtStart
    /\ TorchAtStart
    /\ CharactersAtStart
    /\ CardAtStart

\* every part but the roll history is as it starts
AtStartBesidesHistory ==
    /\ RollerAtStart
    /\ SessionAtStart
    /\ TrackerAtStart
    /\ TorchAtStart
    /\ CharactersAtStart
    /\ CardAtStart

\* every part but the DiceRoller is as it starts
AtStartBesidesRoller ==
    /\ HistoryAtStart
    /\ SessionAtStart
    /\ TrackerAtStart
    /\ TorchAtStart
    /\ CharactersAtStart
    /\ CardAtStart

\* every part but SessionService is as it starts
AtStartBesidesSession ==
    /\ HistoryAtStart
    /\ RollerAtStart
    /\ TrackerAtStart
    /\ TorchAtStart
    /\ CharactersAtStart
    /\ CardAtStart

\* every part but the InitiativeTracker is as it starts
AtStartBesidesTracker ==
    /\ HistoryAtStart
    /\ RollerAtStart
    /\ SessionAtStart
    /\ TorchAtStart
    /\ CharactersAtStart
    /\ CardAtStart

\* every part but the TorchIndicator and SessionService is as it starts
AtStartBesidesTorch ==
    /\ HistoryAtStart
    /\ RollerAtStart
    /\ TrackerAtStart
    /\ CharactersAtStart
    /\ CardAtStart

\* every part but CharacterService is as it starts
AtStartBesidesCharacters ==
    /\ HistoryAtStart
    /\ RollerAtStart
    /\ SessionAtStart
    /\ TrackerAtStart
    /\ TorchAtStart
    /\ CardAtStart

\* every part but the CharacterCard is as it starts
AtStartBesidesCard ==
    /\ HistoryAtStart
    /\ RollerAtStart
    /\ SessionAtStart
    /\ TrackerAtStart
    /\ TorchAtStart
    /\ CharactersAtStart

----------------------------------------------------------------------------
(* The calls: one call of DiceService is made, with any of the arguments   *)
(* above, and it returns or throws                                         *)

Calls ==
    [op : {"parseDiceExpression"}, expression : Texts]
    \cup [op : {"isValidExpression"}, expression : ValidityTexts]
    \cup [op : {"rollDice"}, request : RollRequests]
    \cup [op : {"getCommonRolls"}, character : CatalogCharacters]
    \cup [op : {"getSuggestions"}, input : SuggestionInputs]

Init ==
    /\ call \in Calls
    /\ random \in IF call.op = "rollDice" THEN RandomSources ELSE { <<>> }
    /\ ret = Pending
    /\ AtStartBesidesDice

\* DiceService.parseDiceExpression(expression)
ParseDiceExpression ==
    /\ call.op = "parseDiceExpression"
    /\ ret = Pending
    /\ ret' = Return(parseDiceExpression(call.expression), <<>>)
    /\ UNCHANGED <<call, random, besidesDice>>

\* DiceService.isValidExpression(expression)
IsValidExpression ==
    /\ call.op = "isValidExpression"
    /\ ret = Pending
    /\ ret' = Return(isValidExpression(call.expression), <<>>)
    /\ UNCHANGED <<call, random, besidesDice>>

\* DiceService.rollDice(request), secureRandom() handing out random
RollDice ==
    /\ call.op = "rollDice"
    /\ ret = Pending
    /\ ret' = rollDice(call.request, random)
    /\ UNCHANGED <<call, random, besidesDice>>

\* DiceService.getCommonRolls(character)
GetCommonRolls ==
    /\ call.op = "getCommonRolls"
    /\ ret = Pending
    /\ ret' = Return(getCommonRolls(call.character), <<>>)
    /\ UNCHANGED <<call, random, besidesDice>>

\* DiceService.getSuggestions(input)
GetSuggestions ==
    /\ call.op = "getSuggestions"
    /\ ret = Pending
    /\ ret' = Return(getSuggestions(call.input), <<>>)
    /\ UNCHANGED <<call, random, besidesDice>>

Next ==
    \/ ParseDiceExpression
    \/ IsValidExpression
    \/ RollDice
    \/ GetCommonRolls
    \/ GetSuggestions

Spec == Init /\ [][Next]_vars

----------------------------------------------------------------------------
(* The calls of the roll history: any sequence of saveDiceRoll,            *)
(* getRollHistory and clearSessionHistory                                  *)

\* the service has been loaded, no call has been made
InitHistory ==
    /\ NoCallMade
    /\ HistoryAtStart
    /\ AtStartBesidesHistory

\* DiceService.saveDiceRoll(sessionId, diceRoll)
SaveDiceRoll ==
    \E sessionId \in SessionIds :
        /\ saved[sessionId] < MaxSaves
        /\ rollHistory' = saveDiceRoll(rollHistory, sessionId,
                                       DiceRollOf(sessionId, saved[sessionId] + 1))
        /\ storage' = saveToStorage(rollHistory')
        /\ saved' = [saved EXCEPT ![sessionId] = @ + 1]
        /\ call' = [op |-> "saveDiceRoll", sessionId |-> sessionId]
        /\ ret' = Return(Undefined, <<>>)
        /\ UNCHANGED <<random, besidesHistory>>

\* DiceService.getRollHistory(sessionId)
GetRollHistory ==
    \E sessionId \in SessionIds :
        /\ call' = [op |-> "getRollHistory", sessionId |-> sessionId]
        /\ ret' = Return(getRollHistory(sessionId), <<>>)
        /\ UNCHANGED <<random, historyVars, besidesHistory>>

\* DiceService.clearSessionHistory(sessionId)
ClearSessionHistory ==
    \E sessionId \in SessionIds :
        /\ rollHistory' = MapDelete(rollHistory, sessionId)
        /\ storage' = saveToStorage(rollHistory')
        /\ saved' = [saved EXCEPT ![sessionId] = 0]
        /\ call' = [op |-> "clearSessionHistory", sessionId |-> sessionId]
        /\ ret' = Return(Undefined, <<>>)
        /\ UNCHANGED <<random, besidesHistory>>

NextHistory ==
    \/ SaveDiceRoll
    \/ GetRollHistory
    \/ ClearSessionHistory

SpecHistory == InitHistory /\ [][NextHistory]_vars

----------------------------------------------------------------------------
(* The events of a DiceRoller: every handler may run in every state, also  *)
(* in those in which its control is not rendered                           *)

InitRoller ==
    /\ NoCallMade
    /\ AtStartBesidesRoller
    /\ roller \in { InitialState(NoCharacter), InitialState(RollerCharacter) }
    /\ closure = Null
    /\ completed = Null

\* a handler that only sets state has run
Rendered(state) ==
    /\ roller' = state
    /\ completed' = Null
    /\ UNCHANGED <<closure, diceVars, besidesRoller>>

\* onChange of the expression input: setExpression(e.target.value)
SetExpression ==
    \E value \in TypedExpressions : Rendered([roller EXCEPT !.expression = value])

\* onClick of the - and + buttons: setModifier(modifier - 1), setModifier(modifier + 1)
StepModifier ==
    \E step \in {-1, 1} :
        /\ roller.modifier + step \in (0 - MaxModifier)..MaxModifier
        /\ Rendered([roller EXCEPT !.modifier = @ + step])

\* onChange of the modifier input: setModifier(parseInt(e.target.value) || 0)
SetModifier ==
    \E value \in TypedModifiers :
        Rendered([roller EXCEPT !.modifier = ParseModifierInput(value)])

\* onValueChange of the attribute select: setSelectedAttribute(value)
SetSelectedAttribute ==
    \E value \in SelectedAttributes : Rendered([roller EXCEPT !.selectedAttribute = value])

\* onClick of a quick dice button: handleQuickDice(sides)
HandleQuickDice ==
    \E sides \in QuickDice : Rendered(handleQuickDice(roller, sides, 1))

\* onClick of a common roll button: handleCommonRoll(roll.expression)
HandleCommonRoll ==
    \E i \in CommonRollChoices :
        Rendered(handleCommonRoll(roller,
                                  ShownCommonRolls(getCommonRolls(roller.character))[i].expression))

\* onCheckedChange of the two switches: handleAdvantageToggle(type)
HandleAdvantageToggle ==
    \E type \in {"advantage", "disadvantage"} : Rendered(handleAdvantageToggle(roller, type))

\* onClick of the reset button: handleReset()
HandleReset == Rendered(handleReset(roller))

\* onClick of the roll button, which is disabled while a roll is under way
\* and while the expression is not valid: handleRoll() up to its await; the
\* rest of handleRoll reads the state of this render
HandleRoll ==
    /\ ~roller.isRolling
    /\ isValidExpression(roller.expression)
    /\ IF parseDiceExpression(roller.expression) = Null
       THEN UNCHANGED <<roller, closure>>
       ELSE /\ roller' = [roller EXCEPT !.isRolling = TRUE]
            /\ closure' = BuildRequest(roller)
    /\ completed' = Null
    /\ UNCHANGED <<diceVars, besidesRoller>>

\* handleRoll() after its await: the request is built and rolled, and
\* isRolling is set back
RollComplete ==
    /\ closure # Null
    /\ \E rnd \in RollerRandomSources :
           completed' = [request |-> closure, status |-> rollDice(closure, rnd).status]
    /\ roller' = [roller EXCEPT !.isRolling = FALSE]
    /\ closure' = Null
    /\ UNCHANGED <<diceVars, besidesRoller>>

NextRoller ==
    \/ SetExpression
    \/ StepModifier
    \/ SetModifier
    \/ SetSelectedAttribute
    \/ HandleQuickDice
    \/ HandleCommonRoll
    \/ HandleAdvantageToggle
    \/ HandleReset
    \/ HandleRoll
    \/ RollComplete

SpecRoller == InitRoller /\ [][NextRoller]_vars

----------------------------------------------------------------------------
(* The calls of SessionService, and the clock                              *)

InitSession ==
    /\ NoCallMade
    /\ SessionAtStart
    /\ AtStartBesidesSession

\* time passes: by a millisecond, or by the 24 hours of SESSION_TIMEOUT
Tick ==
    \E delta \in {1, SESSION_TIMEOUT} :
        /\ (now \div SESSION_TIMEOUT) + (now % SESSION_TIMEOUT) < MaxTicks
        /\ now' = now + delta
        /\ UNCHANGED <<activeSessions, sessionStore, diceVars, besidesSession>>

\* SessionService.createGMSession(username), Math.random() handing out rnd
CreateGMSession ==
    \E username \in Usernames, rnd \in TokenTapes :
        LET sanitizedUsername == IF trim(username) = <<>> THEN GameMaster ELSE trim(username)
            sessionId == generateSessionToken(rnd)
            gmUser == User(UserId("gm", now, rnd[7]), sanitizedUsername, "GM", sessionId)
            session == NewSession(sessionId, gmUser.id)
        IN  /\ call' = [op |-> "createGMSession", username |-> username]
            /\ IF ~isValidUsername(sanitizedUsername)
               THEN /\ ret' = Throw(UsernameError, <<>>)
                    /\ UNCHANGED <<activeSessions, sessionStore>>
               ELSE /\ activeSessions' = MapSet(activeSessions, sessionId, session)
                    /\ sessionStore' = SessionData(gmUser, session, now)
                    /\ ret' = Return(session, <<>>)
            /\ UNCHANGED <<now, random, besidesSession>>

\* SessionService.validateAndJoinSession(sessionToken, username),
\* Math.random() handing out r
ValidateAndJoinSession ==
    \E sessionToken \in TokenInputs, username \in Usernames, r \in {0, RandScale - 1} :
        LET sanitizedToken == toUpperCase(trim(sessionToken))
            sanitizedUsername == trim(username)
            session == IF sanitizedToken \in DOMAIN activeSessions
                       THEN activeSessions[sanitizedToken]
                       ELSE NewSession(sanitizedToken, MockGmId(now))
            playerUser == User(UserId("player", now, r), sanitizedUsername, "Player",
                               sanitizedToken)
            joined == IF \E i \in 1..Len(session.players) : session.players[i] = playerUser.id
                      THEN session
                      ELSE [session EXCEPT !.players = Append(@, playerUser.id)]
        IN  /\ call' = [op |-> "validateAndJoinSession", sessionToken |-> sessionToken,
                        username |-> username]
            /\ IF ~isValidTokenFormat(sanitizedToken)
               THEN /\ ret' = Return([isValid |-> FALSE, error |-> TokenError], <<>>)
                    /\ UNCHANGED <<activeSessions, sessionStore>>
               ELSE IF ~isValidUsername(sanitizedUsername)
               THEN /\ ret' = Return([isValid |-> FALSE, error |-> UsernameError], <<>>)
                    /\ UNCHANGED <<activeSessions, sessionStore>>
               ELSE /\ activeSessions' = MapSet(activeSessions, sanitizedToken, joined)
                    /\ sessionStore' = SessionData(playerUser, joined, now)
                    /\ ret' = Return([isValid |-> TRUE, session |-> joined], <<>>)
            /\ UNCHANGED <<now, random, besidesSession>>

\* SessionService.loadFromStorage()
LoadFromStorage ==
    /\ call' = [op |-> "loadFromStorage"]
    /\ ret' = Return(loadFromStorage(sessionStore, now), <<>>)
    /\ sessionStore' = StorageAfterLoad(sessionStore, now)
    /\ UNCHANGED <<now, activeSessions, random, besidesSession>>

\* SessionService.clearStorage()
ClearStorage ==
    /\ call' = [op |-> "clearStorage"]
    /\ ret' = Return(Undefined, <<>>)
    /\ sessionStore' = Null
    /\ UNCHANGED <<now, activeSessions, random, besidesSession>>

\* SessionService.updateActivity()
UpdateActivity ==
    /\ call' = [op |-> "updateActivity"]
    /\ ret' = Return(Undefined, <<>>)
    /\ sessionStore' = StorageAfterUpdate(sessionStore, now)
    /\ UNCHANGED <<now, activeSessions, random, besidesSession>>

\* SessionService.leaveSession(user.id, session.id), by the user whose
\* session is stored
LeaveSession ==
    /\ sessionStore # Null
    /\ LET userId == sessionStore.user.id
           sessionId == sessionStore.session.id
       IN  /\ call' = [op |-> "leaveSession", userId |-> userId, sessionId |-> sessionId]
           /\ activeSessions' =
                  IF sessionId \in DOMAIN activeSessions
                  THEN [activeSessions EXCEPT ![sessionId].players =
                            SelectSeq(@, LAMBDA id : id # userId)]
                  ELSE activeSessions
    /\ ret' = Return(Undefined, <<>>)
    /\ sessionStore' = Null
    /\ UNCHANGED <<now, random, besidesSession>>

\* the stored session through time: it is created, loaded, refreshed and
\* cleared while time passes
NextExpiry ==
    \/ Tick
    \/ CreateGMSession
    \/ LoadFromStorage
    \/ UpdateActivity
    \/ ClearStorage

SpecExpiry == InitSession /\ [][NextExpiry]_vars

\* the active sessions: sessions are created, joined and left
NextSessions ==
    \/ CreateGMSession
    \/ ValidateAndJoinSession
    \/ LeaveSession

SpecSessions == InitSession /\ [][NextSessions]_vars

----------------------------------------------------------------------------
(* The events of the InitiativeTracker: each is one handler, run to its    *)
(* end, saveInitiativeData included                                        *)

InitTracker ==
    /\ NoCallMade
    /\ TrackerAtStart
    /\ AtStartBesidesTracker

\* the handler has left the tracker as after, and has saved it
TrackerSaved(after) ==
    /\ tracker' = after
    /\ trackerStorage' = SavedTracker(after)
    /\ UNCHANGED <<diceVars, besidesTracker>>

\* the entry is shown in view mode, where its buttons are
InViewMode(entry) ==
    IF tracker.editingEntry = Null THEN TRUE
    ELSE tracker.editingEntry.id # entry.id

\* the Add Players button
AddPlayerCharacters ==
    /\ Len(sessionCharacters) > 0
    /\ TrackerSaved(addPlayerCharacters(tracker))

\* the Add to Initiative button of the Add Entry dialog; a blank name is
\* refused
HandleAddEntry ==
    \E newEntry \in NewEntries, stamp \in EntryStamps :
        /\ \A i \in 1..Len(tracker.initiativeList) :
               tracker.initiativeList[i].id # <<"entry", stamp>>
        /\ IF tracker.editingEntry = Null THEN TRUE
           ELSE tracker.editingEntry.id # <<"entry", stamp>>
        /\ IF trim(newEntry.name) = <<>>
           THEN UNCHANGED vars
           ELSE TrackerSaved(handleAddEntry(tracker, newEntry, stamp))

\* the edit button of an entry
HandleEditEntry ==
    \E i \in 1..Len(tracker.initiativeList) :
        /\ InViewMode(tracker.initiativeList[i])
        /\ tracker' = handleEditEntry(tracker, tracker.initiativeList[i])
        /\ UNCHANGED <<trackerStorage, diceVars, besidesTracker>>

\* typing into the Initiative field of the edit form
SetEditingInitiative ==
    \E value \in EditedInitiatives :
        /\ tracker.editingEntry # Null
        /\ tracker' = setEditingInitiative(tracker, value)
        /\ UNCHANGED <<trackerStorage, diceVars, besidesTracker>>

\* the Save button of the edit form
HandleSaveEdit ==
    IF tracker.editingEntry = Null
    THEN UNCHANGED vars
    ELSE TrackerSaved(handleSaveEdit(tracker))

\* the delete button of an entry
HandleDeleteEntry ==
    \E i \in 1..Len(tracker.initiativeList) :
        /\ InViewMode(tracker.initiativeList[i])
        /\ TrackerSaved(handleDeleteEntry(tracker, tracker.initiativeList[i].id))

\* handleNextTurn(), whatever the state of its button; a list that is empty
\* makes it return at once
HandleNextTurn ==
    /\ tracker.roundNumber < MaxRounds
    /\ IF Len(tracker.initiativeList) = 0
       THEN UNCHANGED vars
       ELSE TrackerSaved(handleNextTurn(tracker))

\* the Start / Pause button; a list that is empty makes it return at once
HandleStartCombat ==
    IF Len(tracker.initiativeList) = 0
    THEN UNCHANGED vars
    ELSE TrackerSaved(handleStartCombat(tracker))

\* the Reset button
HandleResetCombat == TrackerSaved(handleResetCombat(tracker))

\* the clear button
HandleClearAll == TrackerSaved(handleClearAll(tracker))

\* the -1 and +1 buttons of an entry, each while it is enabled
HandleHPChange ==
    \E i \in 1..Len(tracker.initiativeList), step \in {-1, 1} :
        LET entry == tracker.initiativeList[i]
        IN  /\ InViewMode(entry)
            /\ step = -1 => ~(entry.currentHP <= 0)
            /\ step = 1 => ~(entry.currentHP >= entry.maxHP)
            /\ TrackerSaved(handleHPChange(tracker, entry.id, entry.currentHP + step))

NextTracker ==
    \/ AddPlayerCharacters
    \/ HandleAddEntry
    \/ HandleEditEntry
    \/ SetEditingInitiative
    \/ HandleSaveEdit
    \/ HandleDeleteEntry
    \/ HandleNextTurn
    \/ HandleStartCombat
    \/ HandleResetCombat
    \/ HandleClearAll
    \/ HandleHPChange

SpecTracker == InitTracker /\ [][NextTracker]_vars

----------------------------------------------------------------------------
(* The events of the TorchIndicator: each handler is run to its end,       *)
(* whether or not the element it belongs to is rendered                    *)

InitTorch ==
    /\ NoCallMade
    /\ torch \in MountedTorches
    /\ now = TorchEpoch
    /\ activeSessions = [token \in {} |-> Null]
    /\ sessionStore = Null
    /\ AtStartBesidesTorch

\* a minute passes; the interval of a running torch sets currentTime
TorchMinute ==
    /\ now < TorchEpoch + MaxMinutes * Minute
    /\ now' = now + Minute
    /\ torch' = IF torch.torchState.isRunning
                THEN [torch EXCEPT !.currentTime = now + Minute]
                ELSE torch
    /\ UNCHANGED <<activeSessions, sessionStore, diceVars, besidesTorch>>

\* handleTorchToggle(); the GM's call goes on to SessionService.updateActivity()
HandleTorchToggle ==
    /\ torch' = handleTorchToggle(torch, now)
    /\ sessionStore' = IF torch.isGM THEN StorageAfterUpdate(sessionStore, now)
                       ELSE sessionStore
    /\ UNCHANGED <<now, activeSessions, diceVars, besidesTorch>>

\* handleResetTorch(); the GM's call goes on to SessionService.updateActivity()
HandleResetTorch ==
    /\ torch' = handleResetTorch(torch)
    /\ sessionStore' = IF torch.isGM THEN StorageAfterUpdate(sessionStore, now)
                       ELSE sessionStore
    /\ UNCHANGED <<now, activeSessions, diceVars, besidesTorch>>

\* handleTimeEdit(): a click on the time, or on Set
HandleTimeEdit ==
    /\ torch' = handleTimeEdit(torch)
    /\ UNCHANGED <<sessionVars, diceVars, besidesTorch>>

\* typing into the minutes field while the time is edited
SetTempMinutes ==
    \E minutes \in TypedMinutes :
        /\ torch.isEditingTime
        /\ torch' = [torch EXCEPT !.tempMinutes = minutes]
        /\ UNCHANGED <<sessionVars, diceVars, besidesTorch>>

\* handleTimeCancel()
HandleTimeCancel ==
    /\ torch' = handleTimeCancel(torch)
    /\ UNCHANGED <<sessionVars, diceVars, besidesTorch>>

NextTorch ==
    \/ TorchMinute
    \/ HandleTorchToggle
    \/ HandleResetTorch
    \/ HandleTimeEdit
    \/ SetTempMinutes
    \/ HandleTimeCancel

SpecTorch == InitTorch /\ [][NextTorch]_vars

----------------------------------------------------------------------------
(* The calls of CharacterService                                           *)

InitCharacters ==
    /\ NoCallMade
    /\ CharactersAtStart
    /\ AtStartBesidesCharacters

\* CharacterService.createCharacter(data, user, sessionId), the id being
\* made of stamp
CreateCharacter ==
    \E data \in CharacterData, userId \in CharacterUsers, stamp \in CharacterStamps,
       sessionId \in CharacterSessions :
        /\ sessionId = SessionOf(userId)
        /\ CharacterId(stamp) \notin DOMAIN characters
        /\ call' = [op |-> "createCharacter", data |-> data, userId |-> userId,
                    sessionId |-> sessionId]
        /\ IF ~validateCharacter(data).isValid
           THEN /\ ret' = Throw(ValidationFailed(data), <<>>)
                /\ UNCHANGED <<characters, characterStorage>>
           ELSE /\ characters' = MapSet(characters, CharacterId(stamp),
                                        NewCharacter(data, userId, sessionId, stamp))
                /\ characterStorage' = characters'
                /\ ret' = Return(NewCharacter(data, userId, sessionId, stamp), <<>>)
        /\ UNCHANGED <<random, besidesCharacters>>

\* CharacterService.deleteCharacter(characterId)
DeleteCharacter ==
    \E stamp \in CharacterStamps :
        /\ call' = [op |-> "deleteCharacter", characterId |-> CharacterId(stamp)]
        /\ characters' = MapDelete(characters, CharacterId(stamp))
        /\ characterStorage' = characters'
        /\ ret' = Return(Undefined, <<>>)
        /\ UNCHANGED <<random, besidesCharacters>>

NextCharacters ==
    \/ CreateCharacter
    \/ DeleteCharacter

SpecCharacters == InitCharacters /\ [][NextCharacters]_vars

----------------------------------------------------------------------------
(* The events of the CharacterCard: a button is clicked while it is shown  *)
(* and enabled                                                             *)

InitCard ==
    /\ NoCallMade
    /\ card \in {CardMounted(resources) : resources \in CardResources}
    /\ AtStartBesidesCard

\* the -1, +1, -5 and +5 buttons
HandleCardHPChange ==
    \E delta \in {-1, 1, -5, 5} :
        /\ ~card.isEditingHP
        /\ delta < 0 => ~(card.character.resources.HP <= 0)
        /\ delta > 0 => ~(card.character.resources.HP >= card.character.resources.maxHP)
        /\ card' = CardHPChange(card, delta)
        /\ UNCHANGED <<diceVars, besidesCard>>

\* the Full Heal button
HandleFullHeal ==
    /\ ~card.isEditingHP
    /\ ~(card.character.resources.HP >= card.character.resources.maxHP)
    /\ card' = CardHPChange(card, card.character.resources.maxHP
                                      - card.character.resources.HP)
    /\ UNCHANGED <<diceVars, besidesCard>>

\* handleHPEdit(): a click on the HP, or on Save
HandleHPEdit ==
    /\ card' = handleHPEdit(card)
    /\ UNCHANGED <<diceVars, besidesCard>>

\* typing into the HP field while the HP is edited
SetTempHP ==
    \E value \in TypedHP :
        /\ card.isEditingHP
        /\ card' = [card EXCEPT !.tempHP = value]
        /\ UNCHANGED <<diceVars, besidesCard>>

\* the Cancel button
HandleHPCancel ==
    /\ card.isEditingHP
    /\ card' = handleHPCancel(card)
    /\ UNCHANGED <<diceVars, besidesCard>>

NextCard ==
    \/ HandleCardHPChange
    \/ HandleFullHeal
    \/ HandleHPEdit
    \/ SetTempHP
    \/ HandleHPCancel

SpecCard == InitCard /\ [][NextCard]_vars

----------------------------------------------------------------------------
(* What the properties are stated with: the written form of a text, read   *)
(* off the text itself and not taken from the matcher                      *)

\* the call op has returned
Returned(op) == call.op = op /\ ret.status = "returned"

\* a rollDice call has returned or thrown
RollDone == call.op = "rollDice" /\ ret.status # "pending"

AllDigits(s) == \A i \in 1..Len(s) : s[i] \in Digits

\* the text as the grammar sees it: in lower case, without white space
Cleaned(text) == StripWhitespace(toLowerCase(text))

\* s is [+-] and digits
SignedDigits(s) == Len(s) >= 2 /\ s[1] \in Signs /\ AllDigits(SubSeq(s, 2, Len(s)))

\* s has the form [count]d<sides>[+|-<attr>][+|-modifier]: some split of s
\* into these parts exists
InGrammar(s) ==
    \E n1 \in 0..Len(s) : \E n2 \in 1..Len(s) : \E n3 \in {0, 4} :
        /\ n1 + 1 + n2 + n3 <= Len(s)
        /\ AllDigits(SubSeq(s, 1, n1))
        /\ s[n1 + 1] = "d"
        /\ AllDigits(SubSeq(s, n1 + 2, n1 + 1 + n2))
        /\ n3 = 4 => /\ s[n1 + n2 + 2] \in Signs
                     /\ SubSeq(s, n1 + n2 + 3, n1 + n2 + 5) \in AttributeWords
        /\ LET m == SubSeq(s, n1 + n2 + n3 + 2, Len(s))
           IN  m = <<>> \/ SignedDigits(m)

\* the digits written in front of the d, the digits written after it, and
\* what follows them
WrittenCount(s) == SubSeq(s, 1, DigitRun(s, 1))

WrittenSides(s) == SubSeq(s, DigitRun(s, 1) + 2, DigitRun(s, 1) + 1 + DigitRun(s, DigitRun(s, 1) + 2))

WrittenSuffix(s) == SubSeq(s, DigitRun(s, 1) + 2 + DigitRun(s, DigitRun(s, 1) + 2), Len(s))

\* s starts as a dice expression whose written count (1 when absent) and
\* sides are within the bounds, the count not being written as zero
ValidHead(s) ==
    /\ Len(s) > DigitRun(s, 1)
    /\ s[DigitRun(s, 1) + 1] = "d"
    /\ Len(WrittenSides(s)) >= 1
    /\ WrittenCount(s) # <<>> => DecimalValue(WrittenCount(s)) \in 1..100
    /\ DecimalValue(WrittenSides(s)) \in 1..1000

\* the count a text with a valid head asks for
CountOf(s) == IF WrittenCount(s) = <<>> THEN 1 ELSE DecimalValue(WrittenCount(s))

\* the attribute an attribute word names
NameOf(word) ==
    CASE word = <<"s", "t", "r">> -> STR
      [] word = <<"d", "e", "x">> -> DEX
      [] word = <<"c", "o", "n">> -> CON
      [] word = <<"i", "n", "t">> -> INT
      [] word = <<"w", "i", "s">> -> WIS
      [] word = <<"c", "h", "a">> -> CHA

\* the value of a signed number token
ValueOf(token) ==
    IF token[1] = "-" THEN 0 - DecimalValue(SubSeq(token, 2, Len(token)))
    ELSE DecimalValue(SubSeq(token, 2, Len(token)))

RECURSIVE SumSeq(_, _, _)
\* f[lo] + ... + f[hi]
SumSeq(f, lo, hi) ==
    IF lo > hi THEN 0
    ELSE IF lo = hi THEN f[lo]
    ELSE SumSeq(f, lo, (lo + hi) \div 2) + SumSeq(f, ((lo + hi) \div 2) + 1, hi)

RECURSIVE NextVisible(_, _)
\* the first character of text after position i that is not white space
NextVisible(text, i) ==
    IF i >= Len(text) THEN ""
    ELSE IF text[i + 1] \in Whitespace THEN NextVisible(text, i + 1)
    ELSE text[i + 1]

\* position i of text holds the sign of an attribute token: a sign followed
\* by a letter
IsAttributeSign(text, i) ==
    /\ text[i] \in Signs
    /\ NextVisible(text, i) # ""
    /\ NextVisible(text, i) \notin Digits \cup Signs

\* text with '+' in front of every attribute token
WithPlus(text) ==
    [i \in 1..Len(text) |-> IF IsAttributeSign(text, i) THEN "+" ELSE text[i]]

\* text writes some attribute token with '-'
HasMinusAttribute(text) ==
    \E i \in 1..Len(text) : text[i] = "-" /\ IsAttributeSign(text, i)

----------------------------------------------------------------------------
(* Properties                                                              *)

\* C1: for every successful rollDice call, total equals the sum of
\* rolls[i].result over all roll entries plus the sum of modifiers[j].value
\* over all modifier entries.
TotalIsSumOfRollsAndModifiers ==
    Returned("rollDice") =>
        LET rolls == ret.value.rolls
            modifiers == ret.value.modifiers
        IN  ret.value.total =
                SumSeq([i \in 1..Len(rolls) |-> rolls[i].result], 1, Len(rolls))
                + SumSeq([j \in 1..Len(modifiers) |-> modifiers[j].value], 1, Len(modifiers))

\* a roll of several dice with all three modifiers, one of them negative, has
\* returned
TotalIsSumWitness ==
    /\ Returned("rollDice")
    /\ Len(ret.value.rolls) >= 2
    /\ Len(ret.value.modifiers) = 3
    /\ \E j \in 1..3 : ret.value.modifiers[j].value < 0
    /\ ret.value.rolls[1].result # ret.value.rolls[2].result

\* C2: every expression parseDiceExpression returns has 1 <= count <= 100 and
\* 1 <= sides <= 1000 and comes from a text of the grammar; for every other
\* text it returns null (it never throws).
ParsedExpressionInBounds ==
    call.op = "parseDiceExpression" /\ ret.status # "pending" =>
        /\ ret.status = "returned"
        /\ \/ ret.value = Null
           \/ /\ ret.value.count \in 1..100
              /\ ret.value.sides \in 1..1000
              /\ InGrammar(Cleaned(call.expression))

\* an attribute-form text with the largest count and sides has been parsed
ParsedExpressionInBoundsWitness ==
    /\ Returned("parseDiceExpression")
    /\ ret.value # Null
    /\ ret.value.count = 100
    /\ ret.value.sides = 1000
    /\ ret.value.attributeBonus # NoAttribute

\* C3: parseDiceExpression returns null for every text of the grammar whose
\* written dice count is zero ("0d6", "00d20+1"), and isValidExpression of
\* such a text is false.
ZeroCountFails ==
    LET s == Cleaned(call.expression)
    IN  /\ Returned("parseDiceExpression") /\ InGrammar(s)
           /\ WrittenCount(s) # <<>> /\ DecimalValue(WrittenCount(s)) = 0
           => ret.value = Null
        /\ Returned("isValidExpression") /\ InGrammar(s)
           /\ WrittenCount(s) # <<>> /\ DecimalValue(WrittenCount(s)) = 0
           => ret.value = FALSE

\* C4: parseDiceExpression returns null for every text of the grammar whose
\* written count exceeds 100, whose sides is 0 or whose sides exceeds 1000,
\* in both forms and whatever modifier follows.
OutOfRangeFails ==
    LET s == Cleaned(call.expression)
    IN  /\ Returned("parseDiceExpression")
        /\ InGrammar(s)
        /\ \/ DecimalValue(WrittenCount(s)) > 100
           \/ DecimalValue(WrittenSides(s)) = 0
           \/ DecimalValue(WrittenSides(s)) > 1000
        => ret.value = Null

\* an attribute-form text with a count over 100 and a modifier has been
\* refused
OutOfRangeFailsWitness ==
    LET s == Cleaned(call.expression)
    IN  /\ Returned("parseDiceExpression")
        /\ InGrammar(s)
        /\ DecimalValue(WrittenCount(s)) > 100
        /\ DecimalValue(WrittenSides(s)) \in 1..1000
        /\ Len(WrittenSuffix(s)) > 4
        /\ WrittenSuffix(s)[2] \notin Digits
        /\ ret.value = Null

\* C5: when the count is omitted parseDiceExpression behaves as if it were 1:
\* parse("dS" + X) returns what parse("1dS" + X) returns, and for sides in
\* 1..1000 and a suffix of the grammar that is an expression with count 1.
OmittedCountIsOne ==
    LET s == Cleaned(call.expression)
    IN  Returned("parseDiceExpression") /\ Len(s) >= 1 /\ s[1] = "d" =>
            /\ ret.value = parseDiceExpression(<<"1">> \o call.expression)
            /\ InGrammar(s) /\ DecimalValue(WrittenSides(s)) \in 1..1000
               => ret.value # Null /\ ret.value.count = 1

\* a text without count, with an attribute and a modifier, has been parsed
OmittedCountIsOneWitness ==
    LET s == Cleaned(call.expression)
    IN  /\ Returned("parseDiceExpression")
        /\ Len(s) >= 1
        /\ s[1] = "d"
        /\ ret.value # Null
        /\ ret.value.count = 1
        /\ ret.value.attributeBonus # NoAttribute
        /\ ret.value.modifier # 0

\* the suffixes of two tokens, by the kinds of the tokens
AttributeThenNumber == { a \o m : a \in AttributeTokens, m \in NumberTokens }

NumberThenAttribute == { m \o a : a \in AttributeTokens, m \in NumberTokens }

TwoAttributes == { a \o b : a \in AttributeTokens, b \in AttributeTokens }

TwoNumbers == { m \o n : m \in NumberTokens, n \in NumberTokens }

\* C6: in the attribute form the attribute token precedes the numeric
\* modifier: "NdS+attr+M" parses to count N, sides S, modifier M and the
\* upper-cased attribute; a text with the modifier in front of the attribute
\* token, with two attribute tokens or with two modifiers does not parse; a
\* text without attribute token parses without attributeBonus.
AttributeBeforeModifier ==
    LET s == Cleaned(call.expression)
        suffix == WrittenSuffix(s)
    IN  Returned("parseDiceExpression") /\ ValidHead(s) =>
            /\ suffix \in AttributeThenNumber =>
                   ret.value = Expression(CountOf(s), DecimalValue(WrittenSides(s)),
                                          ValueOf(SubSeq(suffix, 5, Len(suffix))),
                                          NameOf(SubSeq(suffix, 2, 4)))
            /\ suffix \in NumberThenAttribute \cup TwoAttributes \cup TwoNumbers =>
                   ret.value = Null
            /\ suffix \in { <<>> } \cup NumberTokens =>
                   ret.value # Null /\ ret.value.attributeBonus = NoAttribute

\* a text "NdS-cha-M" written with capitals or white space has been parsed
AttributeBeforeModifierWitness ==
    LET s == Cleaned(call.expression)
    IN  /\ Returned("parseDiceExpression")
        /\ ValidHead(s)
        /\ WrittenSuffix(s) \in AttributeThenNumber
        /\ ret.value # Null
        /\ ret.value.count > 1
        /\ ret.value.attributeBonus = DEX
        /\ ret.value.modifier < 0
        /\ s # call.expression

\* C7: the sign in front of an attribute token is ignored: a text with
\* "-attr" parses to what the text with "+attr" parses to, and rolling either
\* against the same character with the same die outcomes gives the same rolls,
\* the same modifiers and the same total, the '<ATTR> Bonus' entry carrying
\* floor((score - 10) / 2), never negated.
AttributeSignIgnored ==
    /\ Returned("parseDiceExpression") =>
           ret.value = parseDiceExpression(WithPlus(call.expression))
    /\ RollDone =>
           LET plus == rollDice([call.request EXCEPT !.expression = WithPlus(@)], random)
               s == Cleaned(call.request.expression)
           IN  /\ ret.status = plus.status
               /\ ret.drawn = plus.drawn
               /\ ret.status = "returned" =>
                      /\ ret.value.rolls = plus.value.rolls
                      /\ ret.value.modifiers = plus.value.modifiers
                      /\ ret.value.total = plus.value.total
                      /\ ret.value.details = plus.value.details
               /\ /\ ValidHead(s)
                  /\ WrittenSuffix(s) \in AttributeTokens \cup AttributeThenNumber
                  /\ call.request.character.defined
                  => /\ ret.status = "returned"
                     /\ \E j \in 1..Len(ret.value.modifiers) :
                            /\ ret.value.modifiers[j].name
                                   = BonusName(NameOf(SubSeq(WrittenSuffix(s), 2, 4)))
                            /\ ret.value.modifiers[j].value
                                   = (call.request.character.basicAttributes[
                                          NameOf(SubSeq(WrittenSuffix(s), 2, 4))] - 10) \div 2

\* a roll of "...-attr..." against a character has returned with a bonus
\* that is not zero
AttributeSignIgnoredWitness ==
    /\ Returned("rollDice")
    /\ HasMinusAttribute(call.request.expression)
    /\ call.request.character.defined
    /\ \E j \in 1..Len(ret.value.modifiers) :
           /\ ret.value.modifiers[j].name \notin {ModifierName, LuckBonusName}
           /\ ret.value.modifiers[j].value > 0

\* C8: rollDice throws the invalid-expression error exactly when
\* parseDiceExpression of the expression returns null; it throws before any
\* die is rolled and without partial result; when parsing succeeds it returns a
\* result.
RollFailsIffParseFails ==
    RollDone =>
        /\ ret.status = "threw" <=> parseDiceExpression(call.request.expression) = Null
        /\ ret.status = "threw" =>
               /\ ret.value = InvalidExpression
               /\ ret.drawn = <<>>
        /\ ret.status = "returned" =>
               /\ DOMAIN ret.value = {"expression", "rolls", "modifiers", "total", "details"}
               /\ Len(ret.value.rolls) >= 1

\* a roll of a text of the grammar with a count over 100 has thrown
RollFailsIffParseFailsWitness ==
    /\ call.op = "rollDice"
    /\ ret.status = "threw"
    /\ InGrammar(Cleaned(call.request.expression))
    /\ call.request.character.defined
    /\ call.request.advantage

\* C9: for a request whose parsed expression is one d20 and with advantage or
\* disadvantage set, rollDice rolls exactly two d20 and returns exactly one
\* roll entry, whose result is the higher of the two under advantage and the
\* lower of the two under disadvantage (the two flags being mutually
\* exclusive, disadvantage means disadvantage without advantage).
AdvantageKeepsHigher ==
    LET parsed == parseDiceExpression(call.request.expression)
        request == call.request
    IN  /\ Returned("rollDice")
        /\ parsed.sides = 20 /\ parsed.count = 1
        /\ request.advantage \/ request.disadvantage
        => /\ Len(ret.drawn) = 2
           /\ ret.drawn[1] = ((random[1] * 20) \div RandScale) + 1
           /\ ret.drawn[2] = ((random[2] * 20) \div RandScale) + 1
           /\ Len(ret.value.rolls) = 1
           /\ ret.value.rolls[1].result \in {ret.drawn[1], ret.drawn[2]}
           /\ request.advantage =>
                  /\ ret.value.rolls[1].result >= ret.drawn[1]
                  /\ ret.value.rolls[1].result >= ret.drawn[2]
           /\ request.disadvantage /\ ~request.advantage =>
                  /\ ret.value.rolls[1].result <= ret.drawn[1]
                  /\ ret.value.rolls[1].result <= ret.drawn[2]

\* a d20 has been rolled with advantage, the second die being the higher one
AdvantageKeepsHigherWitness ==
    /\ Returned("rollDice")
    /\ call.request.advantage /\ ~call.request.disadvantage
    /\ Len(ret.drawn) = 2
    /\ ret.drawn[1] < ret.drawn[2]
    /\ Len(ret.value.rolls) = 1
    /\ ret.value.rolls[1].result = ret.drawn[2]

\* C10: when the parsed expression is not exactly one d20 the advantage and
\* disadvantage flags have no effect: the result is the one the same request
\* gives with any other combination of the flags and the same die outcomes,
\* with count roll entries in the order the dice were rolled and no tag in
\* details.
FlagsIgnoredUnlessOneD20 ==
    LET parsed == parseDiceExpression(call.request.expression)
    IN  /\ Returned("rollDice")
        /\ parsed.sides # 20 \/ parsed.count # 1
        => /\ \A advantage \in BOOLEAN, disadvantage \in BOOLEAN :
                  ret = rollDice([call.request EXCEPT !.advantage = advantage,
                                                     !.disadvantage = disadvantage],
                                 random)
           /\ Len(ret.value.rolls) = parsed.count
           /\ Len(ret.drawn) = parsed.count
           /\ \A i \in 1..parsed.count : ret.value.rolls[i].result = ret.drawn[i]
           /\ ret.value.details[1] \in Digits

\* two d20 have been rolled with advantage set, with different outcomes
FlagsIgnoredUnlessOneD20Witness ==
    /\ Returned("rollDice")
    /\ call.request.advantage
    /\ Len(ret.value.rolls) = 2
    /\ ret.value.rolls[1].die = 20
    /\ ret.value.rolls[1].result < ret.value.rolls[2].result

\* part occurs in text as a run of adjacent characters
Contains(text, part) ==
    \E i \in 1..(Len(text) - Len(part) + 1) :
        SubSeq(text, i, i + Len(part) - 1) = part

\* C11: in advantage or disadvantage mode (one d20, a flag set) the details
\* of the returned result record both raw d20 values that were drawn, in the
\* form "(a, b)", and not only the kept value.
DetailsRecordBothRaws ==
    LET parsed == parseDiceExpression(call.request.expression)
    IN  /\ Returned("rollDice")
        /\ parsed.sides = 20 /\ parsed.count = 1
        /\ call.request.advantage \/ call.request.disadvantage
        => /\ Len(ret.drawn) = 2
           /\ Contains(ret.value.details,
                       <<"(">> \o IntToString(ret.drawn[1]) \o <<",", " ">>
                       \o IntToString(ret.drawn[2]) \o <<")">>)

\* C12: for every successful roll of NdS, with or without advantage or
\* disadvantage, every roll entry has die = S and 1 <= result <= S, isMax is
\* true exactly when result = S and isMin exactly when result = 1.
RollEntriesWithinDie ==
    Returned("rollDice") =>
        LET sides == DecimalValue(WrittenSides(Cleaned(call.request.expression)))
        IN  \A i \in 1..Len(ret.value.rolls) :
                LET entry == ret.value.rolls[i]
                IN  /\ entry.die = sides
                    /\ 1 <= entry.result /\ entry.result <= sides
                    /\ entry.isMax = (entry.result = sides)
                    /\ entry.isMin = (entry.result = 1)

\* a one-sided die has been rolled: its entry is the highest and the lowest
\* result at once
RollEntriesWithinDieWitness ==
    /\ Returned("rollDice")
    /\ Len(ret.value.rolls) = 1
    /\ ret.value.rolls[1].die = 1
    /\ ret.value.rolls[1].result = 1
    /\ ret.value.rolls[1].isMax /\ ret.value.rolls[1].isMin

\* the attribute word a cleaned text with a valid head writes after the
\* sides, <<>> when it writes none
WrittenAttribute(s) ==
    IF Len(WrittenSuffix(s)) >= 4 /\ SubSeq(WrittenSuffix(s), 2, 4) \in AttributeWords
    THEN SubSeq(WrittenSuffix(s), 2, 4)
    ELSE <<>>

\* the bonuses the property lists for some scores
BonusExamples == (10 :> 0) @@ (11 :> 0) @@ (12 :> 1) @@ (8 :> -1) @@ (7 :> -2)
                 @@ (20 :> 5) @@ (3 :> -4)

\* the positions of modifiers that hold the bonus of some attribute
AttributeEntries(modifiers) ==
    { j \in 1..Len(modifiers) : modifiers[j].name \in { BonusName(a) : a \in {STR, DEX, CON, INT, WIS, CHA} } }

\* C13: when the expression names an attribute and a character is supplied,
\* the result has one '<ATTR> Bonus' entry, for exactly the named attribute,
\* whose value is floor((score - 10) / 2) of that attribute's score (10 -> 0,
\* 11 -> 0, 12 -> 1, 8 -> -1, 7 -> -2, 20 -> 5, 3 -> -4); without a character,
\* or without an attribute in the expression, no attribute contributes.
AttributeBonusIsFloorOfHalf ==
    Returned("rollDice") =>
        LET word == WrittenAttribute(Cleaned(call.request.expression))
            character == call.request.character
            entries == AttributeEntries(ret.value.modifiers)
        IN  IF word # <<>> /\ character.defined
            THEN \E j \in entries :
                     LET score == character.basicAttributes[NameOf(word)]
                         bonus == ret.value.modifiers[j]
                     IN  /\ entries = {j}
                         /\ bonus.name = BonusName(NameOf(word))
                         /\ 2 * bonus.value <= score - 10
                         /\ score - 10 < 2 * bonus.value + 2
                         /\ score \in DOMAIN BonusExamples => bonus.value = BonusExamples[score]
            ELSE entries = {}

\* a roll naming INT against a character whose INT is 3 has returned with an
\* 'INT Bonus' of -4
AttributeBonusIsFloorOfHalfWitness ==
    /\ Returned("rollDice")
    /\ call.request.character.defined
    /\ call.request.character.basicAttributes[INT] = 3
    /\ \E j \in 1..Len(ret.value.modifiers) :
           /\ ret.value.modifiers[j].name = BonusName(INT)
           /\ ret.value.modifiers[j].value = -4

\* the positions of modifiers that hold the luck bonus
LuckEntries(modifiers) ==
    { j \in 1..Len(modifiers) : modifiers[j].name = LuckBonusName }

\* C14: when the supplied character has luck, the total is exactly 1 greater
\* than the total of the same request with the same die outcomes and the luck
\* flag false, the difference being a single 'Luck Bonus' entry of value +1;
\* without a character, or with luck false, there is no 'Luck Bonus' entry.
LuckAddsOne ==
    Returned("rollDice") =>
        LET request == call.request
            entries == LuckEntries(ret.value.modifiers)
        IN  IF request.character.defined /\ request.character.resources.luck
            THEN LET unlucky ==
                         rollDice([request EXCEPT !.character.resources.luck = FALSE], random)
                 IN  /\ unlucky.status = "returned"
                     /\ unlucky.drawn = ret.drawn
                     /\ ret.value.rolls = unlucky.value.rolls
                     /\ ret.value.total = unlucky.value.total + 1
                     /\ ret.value.modifiers
                            = Append(unlucky.value.modifiers,
                                     [name |-> LuckBonusName, value |-> 1])
                     /\ LuckEntries(unlucky.value.modifiers) = {}
                     /\ Cardinality(entries) = 1
            ELSE entries = {}

\* a roll against a character with luck has returned with other modifiers
\* in front of the luck bonus
LuckAddsOneWitness ==
    /\ Returned("rollDice")
    /\ call.request.character.defined
    /\ call.request.character.resources.luck
    /\ Len(ret.value.modifiers) = 3
    /\ ret.value.modifiers[3].name = LuckBonusName

\* the signed number a cleaned text with a valid head writes after the sides
\* and the attribute, <<>> when it writes none
WrittenNumber(s) ==
    IF WrittenAttribute(s) # <<>> THEN SubSeq(WrittenSuffix(s), 5, Len(WrittenSuffix(s)))
    ELSE WrittenSuffix(s)

\* the entries the property lists for a request, in its order
ExpectedModifiers(request) ==
    LET s == Cleaned(request.expression)
        number == IF WrittenNumber(s) = <<>> THEN 0 ELSE ValueOf(WrittenNumber(s))
    IN  (IF number # 0 THEN << [name |-> ModifierName, value |-> number] >> ELSE <<>>)
        \o (IF WrittenAttribute(s) # <<>> /\ request.character.defined
            THEN << [name |-> BonusName(NameOf(WrittenAttribute(s))),
                     value |-> (request.character.basicAttributes[
                                    NameOf(WrittenAttribute(s))] - 10) \div 2] >>
            ELSE <<>>)
        \o (IF request.character.defined /\ request.character.resources.luck
            THEN << [name |-> LuckBonusName, value |-> 1] >>
            ELSE <<>>)

\* C15: the modifiers of a successful roll are exactly the sub-sequence of
\* 'Modifier', '<ATTR> Bonus', 'Luck Bonus', in this order and each at most
\* once, with 'Modifier' present exactly when the numeric modifier is not
\* zero ("1d20+0" yields none), '<ATTR> Bonus' exactly when an attribute was
\* written and a character is supplied, and 'Luck Bonus' exactly when the
\* supplied character has luck.
ModifiersInOrder ==
    Returned("rollDice") => ret.value.modifiers = ExpectedModifiers(call.request)

\* "1d20+0" has been rolled against a character with luck: the only entry is
\* the luck bonus
ModifiersInOrderWitness ==
    /\ Returned("rollDice")
    /\ call.request.expression = <<"1", "d", "2", "0", "+", "0">>
    /\ call.request.character.defined
    /\ Len(ret.value.modifiers) = 1
    /\ ret.value.modifiers[1].name = LuckBonusName

RECURSIVE Concat(_, _, _)
\* parts[lo] \o ... \o parts[hi]
Concat(parts, lo, hi) ==
    IF lo > hi THEN <<>>
    ELSE IF lo = hi THEN parts[lo]
    ELSE Concat(parts, lo, (lo + hi) \div 2) \o Concat(parts, ((lo + hi) \div 2) + 1, hi)

\* a number with its sign written out, '+' for zero and above
Signed(value) ==
    IF value >= 0 THEN <<"+">> \o NatToString(value) ELSE <<"-">> \o NatToString(0 - value)

\* the text the property gives for the rolls: the result alone for exactly
\* one entry, else the bracketed list of the results
RollsText(rolls) ==
    IF Len(rolls) = 1 THEN NatToString(rolls[1].result)
    ELSE <<"[">>
         \o Concat([i \in 1..Len(rolls) |->
                        (IF i > 1 THEN <<",", " ">> ELSE <<>>) \o NatToString(rolls[i].result)],
                   1, Len(rolls))
         \o <<"]">>

\* the text the property gives for the modifiers
ModifiersText(modifiers) ==
    Concat([j \in 1..Len(modifiers) |->
                <<" ">> \o Signed(modifiers[j].value)
                \o <<" ", "(">> \o modifiers[j].name \o <<")">>],
           1, Len(modifiers))

\* C16: the details of a successful roll are fully determined by the parsed
\* expression, the mode, the rolls and the modifiers: a tag "(Advantage) " or
\* "(Disadvantage) " only in advantage or disadvantage mode, then
\* "<count>d<sides>" with the parsed count ("d6" is shown as "1d6"), then
\* " -> r" for exactly one roll entry and " -> [r1, r2, ...]" otherwise, then
\* for each modifier in order " <signed value> (<name>)" with an explicit '+'
\* for values of zero and above.
DetailsDetermined ==
    Returned("rollDice") =>
        LET parsed == parseDiceExpression(call.request.expression)
            request == call.request
            oneD20 == parsed.count = 1 /\ parsed.sides = 20
            tag == IF oneD20 /\ request.advantage THEN AdvantageTag
                   ELSE IF oneD20 /\ request.disadvantage THEN DisadvantageTag
                   ELSE <<>>
        IN  /\ ret.value.details
                   = tag \o NatToString(parsed.count) \o <<"d">> \o NatToString(parsed.sides)
                     \o Arrow \o RollsText(ret.value.rolls)
                     \o ModifiersText(ret.value.modifiers)
            /\ WrittenCount(Cleaned(request.expression)) = <<>> =>
                   SubSeq(ret.value.details, Len(tag) + 1, Len(tag) + 2) = <<"1", "d">>

\* two dice have been rolled with a flag set and a bonus of zero: the details
\* have no tag, the list of both results and "+0" for the bonus
DetailsDeterminedWitness ==
    /\ Returned("rollDice")
    /\ call.request.advantage
    /\ Len(ret.value.rolls) = 2
    /\ ret.value.details[1] = "2"
    /\ Contains(ret.value.details, <<"[">>)
    /\ Contains(ret.value.details, <<" ", "+", "0", " ", "(">>)

\* the nine expressions every catalog starts with
BaseExpressions ==
    << <<"1", "d", "2", "0">>, <<"1", "d", "4">>, <<"1", "d", "6">>, <<"1", "d", "8">>,
       <<"1", "d", "1", "0">>, <<"1", "d", "1", "2">>, <<"1", "d", "1", "0", "0">>,
       <<"4", "d", "6">>, <<"2", "d", "6">> >>

\* the six saving throws, in the order of the attributes
SaveExpressions ==
    [i \in 1..6 |-> <<"1", "d", "2", "0", "+">> \o AttributeNames[i]]

\* C19: getCommonRolls without a character returns exactly the nine entries
\* 1d20, 1d4, 1d6, 1d8, 1d10, 1d12, 1d100, 4d6, 2d6 in this order; with a
\* character it returns these nine followed by nine more: the melee, ranged
\* and spell attack, each "1d20" followed by the bonus with its sign written
\* out ('+' for zero and above), and the saves 1d20+STR, +DEX, +CON, +INT,
\* +WIS, +CHA.
CommonRollsCatalog ==
    Returned("getCommonRolls") =>
        LET expressions == [i \in 1..Len(ret.value) |-> ret.value[i].expression]
            resources == call.character.resources
        IN  IF ~call.character.defined
            THEN expressions = BaseExpressions
            ELSE expressions
                     = BaseExpressions
                       \o << <<"1", "d", "2", "0">> \o Signed(resources.meleeAtkBonus),
                             <<"1", "d", "2", "0">> \o Signed(resources.rangedAtkBonus),
                             <<"1", "d", "2", "0">> \o Signed(resources.spellcastingBonus) >>
                       \o SaveExpressions

\* the catalog of a character with a negative melee bonus and a ranged bonus
\* of zero has been returned
CommonRollsCatalogWitness ==
    /\ Returned("getCommonRolls")
    /\ call.character.defined
    /\ call.character.resources.meleeAtkBonus < 0
    /\ call.character.resources.rangedAtkBonus = 0
    /\ Len(ret.value) = 18
    /\ ret.value[11].expression = <<"1", "d", "2", "0", "+", "0">>

\* C20: for every input, getSuggestions returns at most 5 items, and every
\* returned item is an expression that isValidExpression accepts.
SuggestionsFewAndValid ==
    Returned("getSuggestions") =>
        /\ Len(ret.value) <= 5
        /\ \A i \in 1..Len(ret.value) : isValidExpression(ret.value[i])

\* the suggestions for "d", which every die size matches, have been returned:
\* the first five of them
SuggestionsFewAndValidWitness ==
    /\ Returned("getSuggestions")
    /\ call.input = <<"d">>
    /\ Len(ret.value) = 5
    /\ ret.value[5] = <<"2", "d", "6">>

\* the most recent rolls that were saved to a session, at most HistoryLimit
\* of them, oldest first
MostRecentSaved(sessionId) ==
    LET kept == IF saved[sessionId] < 100 THEN saved[sessionId] ELSE 100
    IN  [i \in 1..kept |-> [id |-> saved[sessionId] - kept + i, sessionId |-> sessionId]]

\* C17: after any sequence of saveDiceRoll calls, getRollHistory of a session
\* holds at most 100 entries, and exactly the most recent min(n, 100) rolls
\* saved to that session (n counted since the session was last cleared), in
\* the order they were saved; saving a roll to one session never changes
\* the history of another session.
HistoryKeepsMostRecent ==
    /\ [](\A sessionId \in SessionIds :
              /\ Len(getRollHistory(sessionId)) <= 100
              /\ getRollHistory(sessionId) = MostRecentSaved(sessionId))
    /\ [][\A sessionId \in SessionIds :
              call'.op = "saveDiceRoll" /\ call'.sessionId # sessionId
              => getRollHistory(sessionId)' = getRollHistory(sessionId)]_vars

\* getRollHistory has returned the history of a session with more than 100
\* saved rolls: 100 entries, the oldest saved rolls gone, while the other
\* session has a shorter history of its own
HistoryKeepsMostRecentWitness ==
    /\ Returned("getRollHistory")
    /\ saved[call.sessionId] > 100
    /\ Len(ret.value) = 100
    /\ ret.value[1].id = saved[call.sessionId] - 99
    /\ ret.value[100].id = saved[call.sessionId]
    /\ \E other \in SessionIds \ {call.sessionId} :
           /\ Len(getRollHistory(other)) \in 1..99
           /\ getRollHistory(other)[1].sessionId = other

\* C18: in the DiceRoller, starting with both switches off, after any
\* sequence of advantage toggles, disadvantage toggles, quick dice
\* selections, common roll selections and resets, advantage and disadvantage
\* are never both true; so every RollRequest handleRoll makes sets at most
\* one of the two flags.
NeverBothFlags ==
    /\ ~(roller.advantage /\ roller.disadvantage)
    /\ closure # Null => ~(closure.advantage /\ closure.disadvantage)
    /\ completed # Null => ~(completed.request.advantage /\ completed.request.disadvantage)

\* a roll with disadvantage has returned, and advantage has been switched on
\* while the roll was under way
NeverBothFlagsWitness ==
    /\ completed # Null
    /\ completed.status = "returned"
    /\ completed.request.disadvantage
    /\ ~completed.request.advantage
    /\ roller.advantage
    /\ ~roller.disadvantage

\* 24 hours, in milliseconds
TwentyFourHours == 24 * 3600 * 1000

\* data was last active at most 24 hours before the present time
StillFresh(data) == now - data.lastActivity <= TwentyFourHours

CreatedTokenIsUnique ==
    [][call'.op = "createGMSession" /\ ret'.status = "returned" =>
           /\ isValidTokenFormat(ret'.value.id)
           /\ ret'.value.id \notin DOMAIN activeSessions
           /\ \A token \in DOMAIN activeSessions :
                  activeSessions'[token] = activeSessions[token]
      ]_vars

\* C23: with a list of n > 0 entries each Next Turn sets currentTurn to
\* (currentTurn + 1) mod n and adds exactly 1 to roundNumber when the turn
\* wraps from the last entry to index 0, and leaves roundNumber as it is
\* otherwise; with an empty list Next Turn changes nothing; Reset returns to
\* turn 0, round 1, not running, and leaves the list as it is.
NextTurnAndResetSteps ==
    [][/\ HandleNextTurn =>
              IF Len(tracker.initiativeList) = 0
              THEN tracker' = tracker /\ trackerStorage' = trackerStorage
              ELSE /\ tracker'.currentTurn =
                          (tracker.currentTurn + 1) % Len(tracker.initiativeList)
                   /\ tracker'.roundNumber =
                          IF tracker.currentTurn = Len(tracker.initiativeList) - 1
                          THEN tracker.roundNumber + 1
                          ELSE tracker.roundNumber
                   /\ tracker'.initiativeList = tracker.initiativeList
       /\ HandleResetCombat =>
              /\ tracker'.currentTurn = 0
              /\ tracker'.roundNumber = 1
              /\ tracker'.isRunning = FALSE
              /\ tracker'.initiativeList = tracker.initiativeList
      ]_vars

\* in a list of three entries the turn has wrapped to index 0 once and has
\* moved on to the second entry
NextTurnAndResetStepsWitness ==
    /\ Len(tracker.initiativeList) = 3
    /\ tracker.roundNumber = 2
    /\ tracker.currentTurn = 1
    /\ trackerStorage = SavedTracker(tracker)

\* C24: the list is kept sorted by initiative, highest first: every entry's
\* initiative is >= that of the entry after it.
ListSortedByInitiative ==
    \A i \in 1..(Len(tracker.initiativeList) - 1) :
        tracker.initiativeList[i].initiative >= tracker.initiativeList[i + 1].initiative

\* C28: currentTurn is a valid position: 0 when the list is empty, and
\* otherwise at least 0 and below the number of entries; roundNumber is at
\* least 1.
CurrentTurnIsValid ==
    /\ IF Len(tracker.initiativeList) = 0
       THEN tracker.currentTurn = 0
       ELSE 0 <= tracker.currentTurn /\ tracker.currentTurn < Len(tracker.initiativeList)
    /\ tracker.roundNumber >= 1

\* a running combat in a later round whose entries have all been deleted:
\* the turn is back at 0
CurrentTurnIsValidWitness ==
    /\ Len(tracker.initiativeList) = 0
    /\ tracker.isRunning
    /\ tracker.roundNumber > 1
    /\ tracker.currentTurn = 0

\* C25: only the GM can change the torch: while the component is rendered
\* with isGM = false no step passes anything to onSessionUpdate, none enters
\* edit mode, and the torchState of the session (isRunning,
\* remainingMinutes, startedAt) stays as it is.
OnlyGMChangesTorch ==
    /\ [](~torch.isGM => torch.updates = Null /\ ~torch.isEditingTime)
    /\ [][~torch.isGM =>
              /\ torch'.torchState = torch.torchState
              /\ torch'.updates = torch.updates
              /\ sessionStore' = sessionStore
         ]_vars

\* a player's click has been refused while the torch is burning and time
\* has passed
OnlyGMChangesTorchWitness ==
    /\ ~torch.isGM
    /\ torch.toast = OnlyTheGM
    /\ torch.torchState.isRunning
    /\ now > TorchEpoch

\* the data is valid in the words of C26: names that are not blank and have
\* the required length, ancestry, class and background present, every
\* attribute in 3..20 with their sum in 48..90, level in 1..20, and
\* 1 <= HP <= maxHP
DataIsValid(data) ==
    /\ Len(trim(data.characterName)) >= 2 /\ Len(trim(data.characterName)) <= 50
    /\ Len(trim(data.playerName)) >= 2
    /\ trim(data.ancestry) # <<>> /\ trim(data.class) # <<>> /\ trim(data.background) # <<>>
    /\ \A name \in DOMAIN data.basicAttributes :
           data.basicAttributes[name] \in 3..20
    /\ data.basicAttributes[STR] + data.basicAttributes[DEX] + data.basicAttributes[CON]
           + data.basicAttributes[INT] + data.basicAttributes[WIS]
           + data.basicAttributes[CHA] \in 48..90
    /\ data.resources.level \in 1..20
    /\ 1 <= data.resources.HP /\ data.resources.HP <= data.resources.maxHP

\* C26: createCharacter stores and returns a character only when the data
\* is valid; for invalid data it throws and the store is left as it was: no
\* character is added, and getCharacter, getCharactersByUser and
\* getCharactersBySession return what they returned before.
CreateCharacterValidates ==
    [][call'.op = "createCharacter" =>
           IF DataIsValid(call'.data)
           THEN /\ ret'.status = "returned"
                /\ ret'.value.id \notin DOMAIN characters
                /\ getCharacter(characters', ret'.value.id) = ret'.value
                /\ ret'.value \in getCharactersByUser(characters', call'.userId)
                /\ ret'.value \in getCharactersBySession(characters', call'.sessionId)
           ELSE /\ ret'.status = "threw"
                /\ DOMAIN characters' = DOMAIN characters
                /\ \A id \in DOMAIN characters :
                       getCharacter(characters', id) = getCharacter(characters, id)
                /\ \A userId \in CharacterUsers :
                       getCharactersByUser(characters', userId)
                           = getCharactersByUser(characters, userId)
                /\ \A sessionId \in CharacterSessions :
                       getCharactersBySession(characters', sessionId)
                           = getCharactersBySession(characters, sessionId)
      ]_vars

\* with a character in the store, createCharacter has thrown for data whose
\* HP exceeds its maxHP
CreateCharacterValidatesWitness ==
    /\ call.op = "createCharacter"
    /\ ret.status = "threw"
    /\ call.data.resources.HP > call.data.resources.maxHP
    /\ DOMAIN characters # {}

\* C27: whenever the Roll button is enabled (the expression field holds a
\* valid expression and no roll is in progress) the expression
\* buildFinalExpression makes of the field, the modifier and the selected
\* attribute is valid, and the rollDice call of handleRoll never throws.
FinalExpressionIsValid ==
    /\ ~roller.isRolling /\ isValidExpression(roller.expression)
           => isValidExpression(buildFinalExpression(roller))
    /\ completed # Null => completed.status # "threw"

\* C29: for a character with 0 <= HP <= maxHP every HP update the card
\* emits (the -1, +1, -5, +5 and Full Heal buttons, and saving an edited HP
\* of any integer) asks for an HP within 0..maxHP, so that HP stays within
\* 0..maxHP; Full Heal sets HP to exactly maxHP.
CardKeepsHPInRange ==
    /\ [](/\ card.character.resources.HP \in 0..card.character.resources.maxHP
          /\ card.updates # Null =>
                 card.updates.resources.HP \in 0..card.character.resources.maxHP)
    /\ [][HandleFullHeal =>
              /\ card'.updates.resources.HP = card.character.resources.maxHP
              /\ card'.character.resources.HP = card.character.resources.maxHP
         ]_vars

\* Full Heal has healed a character of 7 maxHP from 0 HP
CardKeepsHPInRangeWitness ==
    /\ card.toast = [healed |-> 7]
    /\ card.updates # Null
    /\ card.updates.resources.HP = 7
    /\ card.character.resources.HP = 7
    /\ card.character.resources.maxHP = 7

====
